---- MODULE Spec2Model ----
(***************************************************************************)
(* Flux HTTP client (src/src/http-client.ts): one call of HttpClient, from *)
(* _request through _makeRequest and the event handlers it registers on    *)
(* the Node request and response objects.                                  *)
(*                                                                         *)
(* JavaScript runs each handler to completion, so every handler is one     *)
(* action.  The environment (the Node http module, the socket, the peer)   *)
(* chooses which event is delivered next.                                  *)
(***************************************************************************)
EXTENDS Integers, Sequences, FiniteSets, TLC

VARIABLES
    defaultConfig,  \* this.defaultConfig; a key it lacks is null
    baseURL,        \* this.baseURL, a string (sequence of characters)
    call,           \* the arguments of the public method that was called
    pc,             \* "idle" (not called yet), "inflight", "done" (failed before dispatch)
    promise,        \* the promise the caller holds
    req,            \* the http.ClientRequest of _makeRequest
    res,            \* the http.IncomingMessage handed to the response callback
    sock,           \* the socket under the request
    timings,        \* the ResponseTimings object of _makeRequest
    chunks,         \* const chunks: Buffer[] (the lengths of the chunks)
    totalSize,      \* let totalSize
    clock,          \* process.hrtime.bigint(), in nanoseconds
    unit            \* one private method applied on its own (its arguments and its
                    \* result), or the second object of a pair: the other client,
                    \* the other exchange

vars == <<defaultConfig, baseURL, call, pc, promise, req, res, sock, timings,
          chunks, totalSize, clock, unit>>

(***************************************************************************)
(* Bounds of the model and constants of the program.                       *)
(***************************************************************************)
MaxChunks == 3            \* 'data' events delivered to one response
MaxMutations == 2         \* calls of configuration methods on the clients
maxSize == 52428800       \* 50 * 1024 * 1024
NsPerMs == 1000000        \* the divisor 1000000n
TickNs == NsPerMs \div 2  \* the clock advances in steps of half a millisecond
HrtimeAtCall == 15 * TickNs \* reading of the monotonic clock when the call is made
ClientTimeouts == {2}     \* timeout (ms) the client was constructed with

\* JS null / undefined for an optional number: the empty sequence; <<v>> when set.
null == <<>>
Some(v) == <<v>>

(***************************************************************************)
(* Strings are sequences of characters.                                    *)
(***************************************************************************)
HttpScheme == <<"h", "t", "t", "p", ":", "/", "/">>
HttpsScheme == <<"h", "t", "t", "p", "s", ":", "/", "/">>
\* String.prototype.startsWith
StartsWith(s, p) == Len(s) >= Len(p) /\ SubSeq(s, 1, Len(p)) = p
\* String.prototype.endsWith
EndsWith(s, p) == Len(s) >= Len(p) /\ SubSeq(s, Len(s) - Len(p) + 1, Len(s)) = p

\* a JS value that is a string, by its characters
StrVal(s) == [t |-> "string", s |-> s]
(***************************************************************************)
(* Characters and bytes.  A Buffer is a sequence of bytes; writing a       *)
(* string to the request and Buffer.from(string) encode it as UTF-8, and   *)
(* buffer.toString() decodes UTF-8.  The strings and Buffers of the model *)
(* hold ASCII only (bytes below 128), so a character is one byte.          *)
(***************************************************************************)
\* the characters of codes 32..126, in order (the grave accent by its name)
Ascii ==
    <<" ", "!", "\"", "#", "$", "%", "&", "'", "(", ")", "*", "+", ",", "-",
      ".", "/", "0", "1", "2", "3", "4", "5", "6", "7", "8", "9", ":", ";",
      "<", "=", ">", "?", "@", "A", "B", "C", "D", "E", "F", "G", "H", "I",
      "J", "K", "L", "M", "N", "O", "P", "Q", "R", "S", "T", "U", "V", "W",
      "X", "Y", "Z", "[", "\\", "]", "^", "_", "U+0060", "a", "b", "c", "d", "e",
      "f", "g", "h", "i", "j", "k", "l", "m", "n", "o", "p", "q", "r", "s",
      "t", "u", "v", "w", "x", "y", "z", "{", "|", "}", "~">>
\* the character of a byte; a control character goes by its code
CharOf(b) ==
    CASE b = 10 -> "\n"
      [] b = 13 -> "\r"
      [] b \in 32..126 -> Ascii[b - 31]
      [] OTHER -> "U+" \o ToString(b)
CodeOf(c) ==
    IF \E i \in 1..Len(Ascii) : Ascii[i] = c
    THEN 31 + (CHOOSE i \in 1..Len(Ascii) : Ascii[i] = c)
    ELSE CHOOSE b \in 0..127 : CharOf(b) = c
\* Buffer.from(string)
BufferFrom(s) == [i \in 1..Len(s) |-> CodeOf(s[i])]
\* buffer.toString()
BufferToString(b) == [i \in 1..Len(b) |-> CharOf(b[i])]

\* String.prototype.includes
StrIncludes(s, p) == \E i \in 0..(Len(s) - Len(p)) : SubSeq(s, i + 1, i + Len(p)) = p
\* String.prototype.toLowerCase
toLowerCase(s) ==
    LET lower(c) ==
            LET n == CodeOf(c) IN IF n \in CodeOf("A")..CodeOf("Z") THEN CharOf(n + 32) ELSE c
    IN  [i \in 1..Len(s) |-> lower(s[i])]
\* String.prototype.trim
trim(s) ==
    LET whiteSpace == {" ", "\n", "\r"}
        kept == {i \in 1..Len(s) : s[i] \notin whiteSpace}
    IN  IF kept = {} THEN <<>>
        ELSE SubSeq(s, CHOOSE i \in kept : \A j \in kept : i <= j,
                       CHOOSE i \in kept : \A j \in kept : j <= i)
\* Array.prototype.join
RECURSIVE Join(_, _)
Join(strs, sep) ==
    IF strs = <<>> THEN <<>>
    ELSE IF Len(strs) = 1 THEN strs[1]
    ELSE strs[1] \o sep \o Join(Tail(strs), sep)
\* Buffer.concat, and the concatenation of template pieces
RECURSIVE Concat(_)
Concat(seqs) == IF seqs = <<>> THEN <<>> ELSE Head(seqs) \o Concat(Tail(seqs))

\* JS values that reach the data parameter: t is typeof (with null and Buffer
\* told apart), v names the value.
JNull == [t |-> "null", v |-> "null"]
JUndefined == [t |-> "undefined", v |-> "undefined"]
PlainObject == [t |-> "object", v |-> "{a:1}"]
CircularObject == [t |-> "object", v |-> "o={self:o}"]
NullFieldObject == [t |-> "object", v |-> "{a:null}"]
EmptyString == [t |-> "string", v |-> ""]
SomeString == [t |-> "string", v |-> "ab"]
SomeBuffer == [t |-> "buffer", v |-> "Buffer[1,2]"]
\* Further values: the field values of the objects above, and the payloads
\* given to the encoders alone.
One == [t |-> "number", v |-> "1"]
AmpString == [t |-> "string", v |-> "a&b"]
EmptyObject == [t |-> "object", v |-> "{}"]
FileValue == [t |-> "object", v |-> "{filename:'f',content:Buffer[1,2]}"]
FormObject == [t |-> "object", v |-> "{q:'a&b',n:null,k:1}"]
UploadObject == [t |-> "object", v |-> "{s:'ab',b:Buffer[1,2],f:{filename:'f',content:Buffer[1,2]}}"]

\* the characters of a string value
StringOf(value) ==
    CASE value = SomeString -> <<"a", "b">>
      [] value = AmpString -> <<"a", "&", "b">>
      [] value.v \in {"a", "b", "f"} -> <<value.v>>
      [] OTHER -> <<>>
\* the bytes of a Buffer
BufferOf(value) == IF value = SomeBuffer THEN <<1, 2>> ELSE <<>>
\* Object.entries(value)
Entry(k, v) == [key |-> k, value |-> v]
Entries(value) ==
    CASE value = PlainObject -> <<Entry(<<"a">>, One)>>
      [] value = NullFieldObject -> <<Entry(<<"a">>, JNull)>>
      [] value = CircularObject -> <<Entry(<<"s", "e", "l", "f">>, CircularObject)>>
      [] value = FormObject ->
            <<Entry(<<"q">>, AmpString), Entry(<<"n">>, JNull), Entry(<<"k">>, One)>>
      [] value = UploadObject ->
            <<Entry(<<"s">>, SomeString), Entry(<<"b">>, SomeBuffer), Entry(<<"f">>, FileValue)>>
      [] value = FileValue ->
            <<Entry(<<"f", "i", "l", "e", "n", "a", "m", "e">>, [t |-> "string", v |-> "f"]),
              Entry(<<"c", "o", "n", "t", "e", "n", "t">>, SomeBuffer)>>
      [] value = SomeString -> <<Entry(<<"0">>, [t |-> "string", v |-> "a"]),
                                 Entry(<<"1">>, [t |-> "string", v |-> "b"])>>
      [] value = SomeBuffer -> <<Entry(<<"0">>, One), Entry(<<"1">>, [t |-> "number", v |-> "2"])>>
      [] OTHER -> <<>>
\* a decoded or encoded value with its content: a string or a Buffer
Buf(bytes) == [t |-> "buffer", b |-> bytes]
NullVal == [t |-> "null", s |-> <<>>]

(***************************************************************************)
(* The error classes of types.ts.  An error is its class name, its message *)
(* (a template and the values substituted into it) and its statusCode.     *)
(***************************************************************************)
Err(name, text, num, str, sc) ==
    [name |-> name, text |-> text, num |-> num, str |-> str, statusCode |-> sc]
NoError == Err("", "", null, <<>>, null)

\* new HttpClientError(`HTTP ${code}: ${reason}`, code)
HttpClientError(code, reason) == Err("HttpClientError", "HTTP ${statusCode}: ${statusMessage}", Some(code), reason, Some(code))
\* new TimeoutError(timeout): `Request timeout after ${timeout}ms`
TimeoutError(timeout) == Err("TimeoutError", "Request timeout after ${timeout}ms", Some(timeout), <<>>, null)
\* new NetworkError(message): `Network error: ${message}`
NetworkError(text, str) == Err("NetworkError", text, null, str, null)
\* the TypeError the runtime throws (JSON.stringify of a cycle, a property of null)
TypeError(text) == Err("TypeError", text, null, <<>>, null)

\* The promise of one call.
Pending == [state |-> "pending", error |-> NoError, status |-> 0]
Rejected(e) == [state |-> "rejected", error |-> e, status |-> 0]
Fulfilled(status) == [state |-> "fulfilled", error |-> NoError, status |-> status]

(***************************************************************************)
(* The public methods: get, post, put, delete, postForm, postMultipart,    *)
(* postText, postBinary.  Each spreads the caller's config and sets method *)
(* and, for the post* variants, contentType.                               *)
(***************************************************************************)
\* get and delete pass no data to _request
OpTakesData(op) == op \notin {"get", "delete"}

\* the config handed to _request: { ...config, method, contentType? }
OpConfig(op, config) ==
    [config EXCEPT
        !.method = CASE op = "get" -> "GET"
                       [] op = "put" -> "PUT"
                       [] op = "delete" -> "DELETE"
                       [] OTHER -> "POST",
        !.contentType =
            CASE op = "postForm" -> Some("form")
              [] op = "postMultipart" -> Some("multipart")
              [] op = "postText" -> Some("text")
              [] op = "postBinary" -> Some("binary")
              [] OTHER -> config.contentType]

\* Header maps: a map is the sequence of its entries, Header(name, value),
\* in insertion order.
Header(n, v) == [name |-> n, value |-> v]
ContentTypeName ==
    <<"C", "o", "n", "t", "e", "n", "t", "-", "T", "y", "p", "e">>
ApplicationJson ==
    <<"a", "p", "p", "l", "i", "c", "a", "t", "i", "o", "n", "/", "j", "s",
      "o", "n">>
TextPlain == <<"t", "e", "x", "t", "/", "p", "l", "a", "i", "n">>
UserAgentName == <<"U", "s", "e", "r", "-", "A", "g", "e", "n", "t">>
LowerContentTypeName ==
    <<"c", "o", "n", "t", "e", "n", "t", "-", "t", "y", "p", "e">>
XTraceName == <<"X", "-", "T", "r", "a", "c", "e">>
\* the headers the constructor gives a client built without a configuration
DefaultHeaders ==
    <<Header(ContentTypeName, ApplicationJson), 
      Header(UserAgentName, <<"N", "o", "d", "e", ".", "j", "s", " ", "H", "T", "T", "P", " ", "C", "l", "i", "e", "n", "t">>)>>
\* the header maps a caller passes with a call
CallHeaders ==
    { <<>>,
      <<Header(ContentTypeName, <<"a", "p", "p", "l", "i", "c", "a", "t", "i", "o", "n", "/", "v", "n", "d", ".", "a", "p", "i", "+", "j", "s", "o", "n">>)>>,
      <<Header(LowerContentTypeName, TextPlain)>>,
      <<Header(XTraceName, <<"2">>), Header(UserAgentName, <<"x">>)>> }

\* { ...a, ...b }: an entry of b replaces the value of the entry of a that
\* has exactly its name, in place, and is added after the others when a has
\* none
RECURSIVE Spread(_, _)
Spread(a, b) ==
    IF b = <<>> THEN a
    ELSE LET e == Head(b) IN
         Spread(IF \E i \in 1..Len(a) : a[i].name = e.name
                THEN [i \in 1..Len(a) |-> IF a[i].name = e.name THEN e ELSE a[i]]
                ELSE Append(a, e),
                Tail(b))

\* The header Node sends under a name: http.request calls setHeader for the
\* entries of options.headers in insertion order, and setHeader files each
\* under its lower-cased name, so the last entry of a name wins.
SentHeader(headers, lname) ==
    LET hits == SelectSeq(headers, LAMBDA h : toLowerCase(h.name) = lname)
    IN  IF hits = <<>> THEN null ELSE Some(hits[Len(hits)].value)

\* The per-call configurations a caller passes: illegalHeader says that
\* config.headers holds a value http.request refuses (a line break in it).
CallConfigs ==
    [method : {""}, timeout : {null, Some(1)}, contentType : {null, Some("json")},
     illegalHeader : BOOLEAN, headers : {null} \cup {Some(h) : h \in CallHeaders},
     rawResponse : {null, Some(TRUE)}]

\* _mergeConfig: { ...this.defaultConfig, ...config }, and when config.headers
\* is set, headers: { ...this.defaultConfig.headers, ...config.headers }
_mergeConfig(dflt, config) ==
    [method |-> config.method,
     timeout |-> IF config.timeout # null THEN config.timeout ELSE Some(dflt.timeout),
     contentType |-> IF config.contentType # null THEN config.contentType
                     ELSE dflt.contentType,
     illegalHeader |-> config.illegalHeader,
     headers |-> IF config.headers = null THEN Some(dflt.headers)
                 ELSE Some(Spread(dflt.headers, config.headers[1])),
     rawResponse |-> IF config.rawResponse # null THEN config.rawResponse
                     ELSE dflt.rawResponse]

\* x || y for an optional number: 0 and undefined are falsy
OrElse(x, y) == IF x # null /\ x[1] # 0 THEN x[1] ELSE y

\* config.timeout || this.defaultConfig.timeout
EffectiveTimeout(config, dflt) == OrElse(config.timeout, dflt.timeout)

\* _buildURL
_buildURLAlwaysSlash(base, endpoint) ==
    IF StartsWith(endpoint, HttpScheme) \/ StartsWith(endpoint, HttpsScheme)
    THEN endpoint
    ELSE LET b == IF EndsWith(base, <<"/">>) THEN SubSeq(base, 1, Len(base) - 1) ELSE base
         IN  b \o <<"/">> \o endpoint
_buildURL(base, endpoint) ==
    IF StartsWith(endpoint, HttpScheme) \/ StartsWith(endpoint, HttpsScheme)
    THEN endpoint
    ELSE IF base = <<>>
    THEN (IF StartsWith(endpoint, <<"/">>) THEN endpoint ELSE <<"/">> \o endpoint)
    ELSE LET b == IF EndsWith(base, <<"/">>) THEN SubSeq(base, 1, Len(base) - 1) ELSE base
             e == IF StartsWith(endpoint, <<"/">>) THEN endpoint ELSE <<"/">> \o endpoint
         IN  b \o e

\* new URL(url): the string parses when it opens with a scheme (letters up
\* to a colon) and, for http and https, names a host after the slashes.
ColonIndex(s) ==
    IF \E i \in 1..Len(s) : s[i] = ":"
    THEN CHOOSE i \in 1..Len(s) : s[i] = ":" /\ \A j \in 1..(i - 1) : s[j] # ":"
    ELSE 0
RECURSIVE StripSlashes(_)
StripSlashes(s) == IF s # <<>> /\ Head(s) = "/" THEN StripSlashes(Tail(s)) ELSE s
URLParsesRelative(s) == s # <<>>
URLParses(s) ==
    LET i == ColonIndex(s) IN
    /\ i > 1
    /\ \A j \in 1..(i - 1) : s[j] \in {"h", "t", "p", "s", "u", "a"}
    /\ StripSlashes(SubSeq(s, i + 1, Len(s))) # <<>>
IsHttps(url) == SubSeq(url, 1, ColonIndex(url)) = <<"h", "t", "t", "p", "s", ":">>

(***************************************************************************)
(* _serializeData and the encoders under it.  A result is either a throw   *)
(* or a body with the headers of the codec.  The body is kept twice: as    *)
(* the term that produced it, [enc, of], and as its content, a string or a *)
(* Buffer.  A header map is the sequence of its entries in insertion       *)
(* order.                                                                  *)
(***************************************************************************)
NoBody == [enc |-> "null", of |-> JNull]
Body(enc, data) == [enc |-> enc, of |-> data]
Threw(e) == [threw |-> TRUE, error |-> e, body |-> NoBody, content |-> NullVal,
             headers |-> <<>>]
Returned(b, c, h) == [threw |-> FALSE, error |-> NoError, body |-> b, content |-> c,
                      headers |-> h]

FormUrlencoded ==
    <<"a", "p", "p", "l", "i", "c", "a", "t", "i", "o", "n", "/", "x", "-",
      "w", "w", "w", "-", "f", "o", "r", "m", "-", "u", "r", "l", "e", "n",
      "c", "o", "d", "e", "d">>
MultipartFormData ==
    <<"m", "u", "l", "t", "i", "p", "a", "r", "t", "/", "f", "o", "r", "m",
      "-", "d", "a", "t", "a", ";", " ", "b", "o", "u", "n", "d", "a", "r",
      "y", "=">>
OctetStream ==
    <<"a", "p", "p", "l", "i", "c", "a", "t", "i", "o", "n", "/", "o", "c",
      "t", "e", "t", "-", "s", "t", "r", "e", "a", "m">>
WebKitFormBoundary ==
    <<"-", "-", "-", "-", "W", "e", "b", "K", "i", "t", "F", "o", "r", "m",
      "B", "o", "u", "n", "d", "a", "r", "y">>
ContentDisposition ==
    <<"C", "o", "n", "t", "e", "n", "t", "-", "D", "i", "s", "p", "o", "s",
      "i", "t", "i", "o", "n", ":", " ", "f", "o", "r", "m", "-", "d", "a",
      "t", "a", ";", " ", "n", "a", "m", "e", "=", "\"">>
CRLF == <<"\r", "\n">>

\* the characters of a string value, the digit of a number value
NameOf(value) == IF value.t = "string" THEN StringOf(value) ELSE <<value.v>>

\* Number.prototype.toString for a byte
RECURSIVE Decimal(_)
Decimal(n) ==
    IF n < 10 THEN <<Ascii[CodeOf("0") - 31 + n]>>
    ELSE Decimal(n \div 10) \o <<Ascii[CodeOf("0") - 31 + (n % 10)]>>
\* JSON.stringify(data) throws on a cycle
JSONStringifyThrows(data) == data = CircularObject

\* JSON.stringify(value), for a value without a cycle; a Buffer has toJSON
RECURSIVE JSONStringify(_)
JSONStringify(value) ==
    CASE value.t = "string" -> <<"\"">> \o NameOf(value) \o <<"\"">>
      [] value.t = "number" -> NameOf(value)
      [] value.t = "buffer" ->
            LET data == BufferOf(value) IN
            <<"{", "\"", "t", "y", "p", "e", "\"", ":", "\"", "B", "u", "f", "f", "e", "r", "\"", ",", "\"", "d", "a", "t", "a", "\"", ":", "[">>
            \o Join([i \in 1..Len(data) |-> Decimal(data[i])], <<",">>) \o <<"]", "}">>
      [] value.t = "object" ->
            LET es == Entries(value)
                member(e) == <<"\"">> \o e.key \o <<"\"", ":">> \o JSONStringify(e.value)
            IN  <<"{">> \o Join([i \in 1..Len(es) |-> member(es[i])], <<",">>) \o <<"}">>
      [] OTHER -> <<"n", "u", "l", "l">>

\* String(value)
StringAsJson(value) == JSONStringify(value)
String(value) ==
    CASE value.t \in {"string", "number"} -> NameOf(value)
      [] value.t = "null" -> <<"n", "u", "l", "l">>
      [] value.t = "undefined" -> <<"u", "n", "d", "e", "f", "i", "n", "e", "d">>
      [] value.t = "buffer" -> BufferToString(BufferOf(value))
      [] OTHER -> <<"[", "o", "b", "j", "e", "c", "t", " ", "O", "b", "j", "e", "c", "t", "]">>

\* URLSearchParams.prototype.toString: the application/x-www-form-urlencoded
\* serializer keeps letters, digits and * - . _, writes a space as '+' and
\* every other byte as %XX
FormEncode(s) ==
    LET hex == <<"0", "1", "2", "3", "4", "5", "6", "7", "8", "9", "A", "B", "C", "D", "E", "F">>
        encoded(c) ==
            LET n == CodeOf(c) IN
            IF \/ n \in CodeOf("a")..CodeOf("z") \/ n \in CodeOf("A")..CodeOf("Z")
               \/ n \in CodeOf("0")..CodeOf("9") \/ c \in {"*", "-", ".", "_"}
            THEN <<c>>
            ELSE IF c = " " THEN <<"+">>
            ELSE <<"%", hex[(n \div 16) + 1], hex[(n % 16) + 1]>>
    IN  Concat([i \in 1..Len(s) |-> encoded(s[i])])

\* _serializeFormData
_serializeFormDataKeepNull(data) ==
    LET es == Entries(data)
        pair(e) == FormEncode(e.key) \o <<"=">> \o FormEncode(String(e.value))
    IN  Join([i \in 1..Len(es) |-> pair(es[i])], <<"&">>)
_serializeFormData(data) ==
    LET params == SelectSeq(Entries(data), LAMBDA e : e.value.t \notin {"null", "undefined"})
        pair(e) == FormEncode(e.key) \o <<"=">> \o FormEncode(String(e.value))
    IN  Join([i \in 1..Len(params) |-> pair(params[i])], <<"&">>)

\* _serializeMultipartData reads value.filename of every field whose typeof
\* is 'object': a null field value throws
MultipartThrows(data) == \E i \in 1..Len(Entries(data)) : Entries(data)[i].value.t = "null"

\* Buffer.isBuffer
IsBuffer(data) == data.t = "buffer"

\* value.filename && value.content of a field value
IsFile(value) == value = FileValue

\* the random tokens Math.random().toString(36).substring(2) may give
BoundaryTokens == { <<"k", "3">>, <<"z", "9", "q">> }

\* _serializeMultipartData: the bytes pushed for each field, then the closing
\* delimiter; no field of the model has a contentType of its own, so a file
\* part is given 'application/octet-stream'
_serializeMultipartData(data, token) ==
    LET boundary == WebKitFormBoundary \o token
        es == Entries(data)
        field(e) ==
            BufferFrom(<<"-", "-">> \o boundary \o CRLF)
            \o (CASE e.value.t = "string" ->
                        BufferFrom(ContentDisposition \o e.key \o <<"\"">> \o CRLF \o CRLF)
                        \o BufferFrom(NameOf(e.value)) \o BufferFrom(CRLF)
                  [] IsBuffer(e.value) ->
                        BufferFrom(ContentDisposition \o e.key \o <<"\"">> \o CRLF \o CRLF)
                        \o BufferOf(e.value) \o BufferFrom(CRLF)
                  [] e.value.t = "object" /\ IsFile(e.value) ->
                        BufferFrom(ContentDisposition \o e.key
                                   \o <<"\"", ";", " ", "f", "i", "l", "e", "n", "a", "m", "e", "=", "\"">>
                                   \o NameOf(Entries(e.value)[1].value) \o <<"\"">> \o CRLF)
                        \o BufferFrom(<<"C", "o", "n", "t", "e", "n", "t", "-", "T", "y", "p", "e", ":", " ">>
                                      \o OctetStream \o CRLF \o CRLF)
                        \o BufferOf(Entries(e.value)[2].value) \o BufferFrom(CRLF)
                  [] OTHER -> <<>>)
    IN  [body |-> Concat([i \in 1..Len(es) |-> field(es[i])])
                  \o BufferFrom(<<"-", "-">> \o boundary \o <<"-", "-">> \o CRLF),
         boundary |-> boundary]

\* the switch of _serializeData
SerializeSwitch(data, contentType, token) ==
    CASE contentType = "json" ->
           IF JSONStringifyThrows(data)
           THEN Threw(TypeError("Converting circular structure to JSON"))
           ELSE Returned(Body("json", data), StrVal(JSONStringify(data)),
                         <<Header(ContentTypeName, ApplicationJson)>>)
      [] contentType = "form" ->
           Returned(Body("form", data), StrVal(_serializeFormData(data)),
                    <<Header(ContentTypeName, FormUrlencoded)>>)
      [] contentType = "multipart" ->
           IF MultipartThrows(data)
           THEN Threw(TypeError("Cannot read properties of null (reading 'filename')"))
           ELSE LET m == _serializeMultipartData(data, token)
                IN  Returned(Body("multipart", data), Buf(m.body),
                             <<Header(ContentTypeName, MultipartFormData \o m.boundary)>>)
      [] contentType = "text" ->
           Returned(Body("text", data), StrVal(String(data)),
                    <<Header(ContentTypeName, TextPlain)>>)
      [] contentType = "binary" ->
           IF IsBuffer(data)
           THEN Returned(Body("binary", data), Buf(BufferOf(data)),
                         <<Header(ContentTypeName, OctetStream)>>)
           ELSE Threw(NetworkError("Binary content type requires Buffer data", <<>>))
      [] OTHER ->
           IF JSONStringifyThrows(data)
           THEN Threw(TypeError("Converting circular structure to JSON"))
           ELSE Returned(Body("json", data), StrVal(JSONStringify(data)),
                         <<Header(ContentTypeName, ApplicationJson)>>)

\* _serializeData: null and undefined give no body and no header
_serializeDataNoNullCheck(data, contentType, token) ==
    SerializeSwitch(data, contentType, token)
_serializeData(data, contentType, token) ==
    IF data.t \in {"null", "undefined"} THEN Returned(NoBody, NullVal, <<>>)
    ELSE SerializeSwitch(data, contentType, token)

\* if (body): null and the empty string are falsy, a Buffer never is.
\* form drops null fields and yields '' for an object left without fields
\* and for the empty string; text is String(data).
BodyTruthy(body) ==
    CASE body.enc = "null" -> FALSE
      [] body.enc = "form" -> body.of \notin {NullFieldObject, EmptyString}
      [] body.enc = "text" -> body.of # EmptyString
      [] OTHER -> TRUE

(***************************************************************************)
(* _parseResponse.  A response is its body, a Buffer, and its header map;  *)
(* a header value is a JS value, a string or not.  The result is a string, *)
(* a Buffer or a parsed JSON value.                                        *)
(***************************************************************************)
TextSlash == <<"t", "e", "x", "t", "/">>
ApplicationPdf ==
    <<"a", "p", "p", "l", "i", "c", "a", "t", "i", "o", "n", "/", "p", "d",
      "f">>
ImageSlash == <<"i", "m", "a", "g", "e", "/">>
ApplicationXml ==
    <<"a", "p", "p", "l", "i", "c", "a", "t", "i", "o", "n", "/", "x", "m",
      "l">>
\* the values JSON.parse gives for the JSON texts of the model
JsonValues == { PlainObject, NullFieldObject, EmptyObject, One, JNull, SomeString }
\* a value as a decoded result: strings and Buffers by their content
Denote(value) ==
    CASE value.t = "string" -> StrVal(StringOf(value))
      [] value.t = "buffer" -> Buf(BufferOf(value))
      [] OTHER -> value
\* JSON.parse(text): white space around the value is allowed
JSONParseThrows(text) == \A d \in JsonValues : JSONStringify(d) # trim(text)
JSONParse(text) == Denote(CHOOSE d \in JsonValues : JSONStringify(d) = trim(text))

Undefined == [t |-> "undefined", s |-> <<>>]
\* headers[name]
Get(headers, name) ==
    IF \E i \in 1..Len(headers) : headers[i].name = name
    THEN headers[CHOOSE i \in 1..Len(headers) : headers[i].name = name].value
    ELSE Undefined
\* the truth value of a header value: undefined and '' are falsy
Truthy(value) == value.t # "undefined" /\ ~(value.t = "string" /\ value.s = <<>>)
\* contentType && typeof contentType === 'string' && contentType.includes(part)
TypeIncludes(contentType, part) ==
    contentType.t = "string" /\ StrIncludes(contentType.s, part)

\* jsonString.trim() ? JSON.parse(jsonString) : {}, and the catch that
\* returns the raw string when JSON.parse throws
ParseJsonBodyNoCatch(bodyBuffer) ==
    LET jsonString == BufferToString(bodyBuffer) IN
    IF trim(jsonString) = <<>> THEN EmptyObject
    ELSE IF JSONParseThrows(jsonString) THEN EmptyObject
    ELSE JSONParse(jsonString)
ParseJsonBody(bodyBuffer) ==
    LET jsonString == BufferToString(bodyBuffer) IN
    IF trim(jsonString) = <<>> THEN EmptyObject
    ELSE IF JSONParseThrows(jsonString) THEN StrVal(BufferToString(bodyBuffer))
    ELSE JSONParse(jsonString)

_parseResponseTextFirst(response) ==
    LET lower == Get(response.headers, LowerContentTypeName)
        contentType == IF Truthy(lower) THEN lower ELSE Get(response.headers, ContentTypeName)
        bodyBuffer == response.body
    IN  IF bodyBuffer = <<>> THEN StrVal(<<>>)
        ELSE IF ~Truthy(contentType) THEN StrVal(BufferToString(bodyBuffer))
        ELSE IF TypeIncludes(contentType, TextSlash) THEN StrVal(BufferToString(bodyBuffer))
        ELSE IF TypeIncludes(contentType, ApplicationJson) THEN ParseJsonBody(bodyBuffer)
        ELSE IF \/ TypeIncludes(contentType, OctetStream)
                \/ TypeIncludes(contentType, ApplicationPdf)
                \/ TypeIncludes(contentType, ImageSlash)
        THEN Buf(bodyBuffer)
        ELSE StrVal(BufferToString(bodyBuffer))
_parseResponse(response) ==
    LET lower == Get(response.headers, LowerContentTypeName)
        \* response.headers['content-type'] || response.headers['Content-Type']
        contentType == IF Truthy(lower) THEN lower ELSE Get(response.headers, ContentTypeName)
        bodyBuffer == response.body
    IN  IF bodyBuffer = <<>> THEN StrVal(<<>>)
        ELSE IF ~Truthy(contentType) THEN StrVal(BufferToString(bodyBuffer))
        ELSE IF TypeIncludes(contentType, ApplicationJson) THEN ParseJsonBody(bodyBuffer)
        ELSE IF TypeIncludes(contentType, TextSlash) THEN StrVal(BufferToString(bodyBuffer))
        ELSE IF \/ TypeIncludes(contentType, OctetStream)
                \/ TypeIncludes(contentType, ApplicationPdf)
                \/ TypeIncludes(contentType, ImageSlash)
        THEN Buf(bodyBuffer)
        ELSE IF \/ TypeIncludes(contentType, ApplicationXml)
                \/ TypeIncludes(contentType, <<"t", "e", "x", "t", "/", "x", "m", "l">>)
                \/ TypeIncludes(contentType,
                                <<"a", "p", "p", "l", "i", "c", "a", "t", "i", "o", "n", "/", "x", "h", "t", "m", "l", "+", "x", "m", "l">>)
        THEN StrVal(BufferToString(bodyBuffer))
        ELSE StrVal(BufferToString(bodyBuffer))

(***************************************************************************)
(* State of one call.                                                      *)
(***************************************************************************)
NoConfig == [method |-> "", timeout |-> null, contentType |-> null, illegalHeader |-> FALSE,
             headers |-> null, rawResponse |-> null]
NoCall == [op |-> "", endpoint |-> StrVal(<<>>), data |-> JUndefined, config |-> NoConfig]
NoReq == [created |-> FALSE, destroyed |-> FALSE, written |-> NoBody, https |-> FALSE,
          timeout |-> 0, url |-> <<>>, config |-> NoConfig]
NoRes == [received |-> FALSE, statusCode |-> null, statusMessage |-> <<>>,
          complete |-> FALSE, ended |-> FALSE, nData |-> 0]
NoSock == [secure |-> FALSE, closed |-> FALSE, lastActivity |-> 0, error |-> <<>>]
NoTimings == [start |-> null, tlsHandshake |-> null, ttfb |-> null, total |-> null]
\* no private method is applied on its own
NoUnit == [f |-> "", done |-> FALSE]

Init ==
    /\ defaultConfig \in [timeout : ClientTimeouts, contentType : {Some("json")},
                          headers : {DefaultHeaders}, rawResponse : {Some(FALSE)}]
    /\ baseURL = HttpScheme \o <<"h">>
    /\ call = NoCall
    /\ pc = "idle"
    /\ promise = Pending
    /\ req = NoReq
    /\ res = NoRes
    /\ sock = NoSock
    /\ timings = NoTimings
    /\ chunks = <<>>
    /\ totalSize = 0
    /\ clock = HrtimeAtCall
    /\ unit = NoUnit

(***************************************************************************)
(* new Promise((resolve, reject) => ...): the first resolve or reject      *)
(* settles the promise, every later one is ignored.                        *)
(***************************************************************************)
RejectOverwrites(p, e) == Rejected(e)
RejectLastNetworkError(p, e) ==
    IF p.state = "pending" \/ e.name = "NetworkError" THEN Rejected(e) ELSE p
Reject(p, e) == IF p.state = "pending" THEN Rejected(e) ELSE p
Resolve(p, status) == IF p.state = "pending" THEN Fulfilled(status) ELSE p

\* (process.hrtime.bigint() - timings.start) / 1000000n
ElapsedMs == (clock - timings.start[1]) \div NsPerMs

\* !endpoint || typeof endpoint !== 'string'
EndpointTypeOnly(endpoint) == endpoint.t # "string"
EndpointInvalid(endpoint) == endpoint.t # "string" \/ endpoint.s = <<>>

\* the JSON probe of _request: it runs only when the config handed to
\* _request (before merging with the defaults) names contentType 'json'
ValidationThrows(data, config) ==
    /\ data.t \notin {"null", "undefined"}
    /\ config.method \in {"POST", "PUT"}
    /\ data.t = "object"
    /\ config.contentType = Some("json")
    /\ JSONStringifyThrows(data)

\* hostname of the parsed URL; the URLs of the model carry no port, so
\* options.port is 443 for https and 80 otherwise
RECURSIVE UpToSlash(_)
UpToSlash(s) == IF s = <<>> \/ Head(s) = "/" THEN <<>> ELSE <<Head(s)>> \o UpToSlash(Tail(s))
URLHostname(url) == UpToSlash(StripSlashes(SubSeq(url, ColonIndex(url) + 1, Len(url))))
(***************************************************************************)
(* _request up to its await, with the synchronous part of _makeRequest:    *)
(* validation, merge, serialization, URL building and parsing, creation of *)
(* the request, registration of the handlers, write of the body, end().    *)
(***************************************************************************)
Failed(e) ==
    /\ promise' = Rejected(e)
    /\ pc' = "done"
    /\ UNCHANGED <<req, res, sock, timings, chunks, totalSize>>

Dispatch(url, config, body) ==
    /\ timings' = [start |-> Some(clock), tlsHandshake |-> null, ttfb |-> null, total |-> null]
    /\ IF config.illegalHeader
       THEN \* requestModule.request(...) throws
            /\ promise' = Rejected(NetworkError("Failed to create request: ${message}", <<>>))
            /\ pc' = "done"
            /\ UNCHANGED <<req, res, sock, chunks, totalSize>>
       ELSE /\ req' = [created |-> TRUE, destroyed |-> FALSE,
                       written |-> IF BodyTruthy(body) THEN body ELSE NoBody,
                       https |-> IsHttps(url),
                       timeout |-> EffectiveTimeout(config, defaultConfig),
                       url |-> url, config |-> config]
            /\ sock' = [secure |-> FALSE, closed |-> FALSE, lastActivity |-> clock,
                        error |-> <<>>]
            /\ pc' = "inflight"
            /\ UNCHANGED <<promise, res, chunks, totalSize>>

_request(endpoint, config, data, token) ==
    IF EndpointInvalid(endpoint)
    THEN Failed(NetworkError("Invalid endpoint: must be a non-empty string", <<>>))
    ELSE IF ValidationThrows(data, config)
    THEN Failed(NetworkError("Invalid request data: cannot be serialized to JSON", <<>>))
    ELSE LET mergedConfig == _mergeConfig(defaultConfig, config)
             \* mergedConfig.contentType || this.defaultConfig.contentType || 'json'
             contentType == IF mergedConfig.contentType # null
                            THEN mergedConfig.contentType[1]
                            ELSE IF defaultConfig.contentType # null
                            THEN defaultConfig.contentType[1] ELSE "json"
             ser == _serializeData(data, contentType, token)
             \* { ...mergedConfig, body, headers: { ...mergedConfig.headers, ...contentTypeHeaders } }
             finalConfig == [mergedConfig EXCEPT
                               !.headers = Some(Spread(mergedConfig.headers[1], ser.headers))]
             url == _buildURL(baseURL, endpoint.s)
         IN  IF ser.threw THEN Failed(ser.error)
             ELSE IF ~URLParses(url) THEN Failed(NetworkError("Invalid URL: ${url}", url))
             ELSE Dispatch(url, finalConfig, ser.body)

Request(op, endpoint, data, config) ==
    /\ pc = "idle"
    /\ call' = [op |-> op, endpoint |-> endpoint, data |-> data, config |-> config]
    /\ \E token \in BoundaryTokens : _request(endpoint, OpConfig(op, config), data, token)
    /\ UNCHANGED <<unit, defaultConfig, baseURL, clock>>

(***************************************************************************)
(* The environment: what Node delivers to the handlers.                    *)
(*  - The timeout option is the socket's idle timer: every read on the     *)
(*    socket restarts it, and 'timeout' fires when the socket has been     *)
(*    idle for options.timeout milliseconds.                               *)
(*  - req.destroy() removes the 'data' listeners of the response and       *)
(*    destroys the socket; a response whose message is already complete    *)
(*    still emits 'end' on the next tick.                                  *)
(*  - A socket closed before any response makes the request emit 'error'   *)
(*    (socket hang up); closed after the response callback has run, it     *)
(*    aborts the response, on which the code has no listener.              *)
(***************************************************************************)
\* status lines: statusCode (undefined when the parser gave none) and statusMessage
StatusLines ==
    { [code |-> null, message |-> <<>>], [code |-> Some(0), message |-> <<>>],
      [code |-> Some(199), message |-> <<"Early">>], [code |-> Some(200), message |-> <<"OK">>],
      [code |-> Some(299), message |-> <<"OK">>],
      [code |-> Some(300), message |-> <<"Multiple Choices">>],
      [code |-> Some(404), message |-> <<"Not Found">>] }
ChunkSizes == {1, maxSize}
\* faults that reach the request before any response
ConnectFaults ==
    { <<"getaddrinfo", "ENOTFOUND">>, <<"connect", "ECONNREFUSED">>,
      <<"connect", "ETIMEDOUT">>, <<"CERT_HAS_EXPIRED">>,
      <<"UNABLE_TO_VERIFY_LEAF_SIGNATURE">>,
      <<"Parse Error", "HPE_INVALID_HEADER_TOKEN">>, <<"socket hang up">> }
\* a fault of the open connection, before or after the response
StreamFaults == { <<"read", "ECONNRESET">> }
Live == pc = "inflight" /\ ~sock.closed /\ ~res.ended
\* the message is complete and its 'end' is queued for the next tick
EndPending == pc = "inflight" /\ res.complete /\ ~res.ended
TimerDue == clock - sock.lastActivity >= req.timeout * NsPerMs

\* time passes; the timer fires as soon as it is due
Tick ==
    /\ Live /\ ~req.destroyed /\ ~EndPending /\ ~TimerDue
    /\ clock' = clock + TickNs
    /\ UNCHANGED <<unit, defaultConfig, baseURL, call, pc, promise, req, res, sock, timings,
                   chunks, totalSize>>

\* socket.on('secureConnect'), registered for https only
SecureConnect ==
    /\ Live /\ ~req.destroyed /\ ~res.received
    /\ req.https /\ ~sock.secure
    /\ timings' = [timings EXCEPT !.tlsHandshake = Some(ElapsedMs)]
    /\ sock' = [sock EXCEPT !.secure = TRUE, !.lastActivity = clock]
    /\ UNCHANGED <<unit, defaultConfig, baseURL, call, pc, promise, req, res, chunks,
                   totalSize, clock>>

\* the response callback: it registers the 'data' and 'end' handlers
Response(line, complete) ==
    /\ Live /\ ~req.destroyed /\ ~res.received
    /\ res' = [received |-> TRUE, statusCode |-> line.code,
               statusMessage |-> line.message, complete |-> complete,
               ended |-> FALSE, nData |-> 0]
    /\ sock' = [sock EXCEPT !.lastActivity = clock]
    /\ UNCHANGED <<unit, defaultConfig, baseURL, call, pc, promise, req, timings, chunks,
                   totalSize, clock>>

\* totalSize > maxSize
OversizeAtCeiling(total) == total >= maxSize
Oversize(total) == total > maxSize

\* if (timings.ttfb === null) timings.ttfb = ...
TtfbStampEveryChunk == Some(ElapsedMs)
TtfbStamp == IF timings.ttfb = null THEN Some(ElapsedMs) ELSE timings.ttfb

\* res.on('data'): last says that this chunk completes the message
OnData(len, last) ==
    /\ Live /\ ~req.destroyed /\ res.received /\ ~res.complete
    /\ res.nData < MaxChunks
    /\ timings' = [timings EXCEPT !.ttfb = TtfbStamp]
    /\ totalSize' = totalSize + len
    /\ IF Oversize(totalSize')
       THEN /\ req' = [req EXCEPT !.destroyed = TRUE]
            /\ promise' = Reject(promise, NetworkError("Response too large", <<>>))
            /\ UNCHANGED chunks
       ELSE /\ chunks' = Append(chunks, len)
            /\ UNCHANGED <<req, promise>>
    /\ res' = [res EXCEPT !.complete = last, !.nData = @ + 1]
    /\ sock' = [sock EXCEPT !.lastActivity = clock]
    /\ UNCHANGED <<unit, defaultConfig, baseURL, call, pc, clock>>

\* res.statusCode && (res.statusCode < 200 || res.statusCode >= 300)
StatusIsErrorBelow200(sc) == sc # null /\ sc[1] # 0 /\ sc[1] < 200
StatusIsErrorAbove300(sc) == sc # null /\ sc[1] # 0 /\ (sc[1] < 200 \/ sc[1] > 300)
StatusIsError(sc) == sc # null /\ sc[1] # 0 /\ (sc[1] < 200 \/ sc[1] >= 300)

\* timings.total = (process.hrtime.bigint() - timings.start) / 1000000n
TotalSinceFirstByte == IF timings.ttfb = null THEN ElapsedMs ELSE ElapsedMs - timings.ttfb[1]
TotalStamp == ElapsedMs

\* res.on('end')
OnEnd ==
    /\ EndPending
    /\ timings' = [timings EXCEPT !.total = Some(TotalStamp)]
    /\ promise' = IF StatusIsError(res.statusCode)
                  THEN Reject(promise, HttpClientError(res.statusCode[1], res.statusMessage))
                  ELSE Resolve(promise, OrElse(res.statusCode, 0))
    /\ res' = [res EXCEPT !.ended = TRUE]
    /\ UNCHANGED <<unit, defaultConfig, baseURL, call, pc, req, sock, chunks, totalSize, clock>>

\* req.on('timeout')
OnTimeout ==
    /\ Live /\ ~req.destroyed /\ ~EndPending /\ TimerDue
    /\ req' = [req EXCEPT !.destroyed = TRUE]
    /\ promise' = Reject(promise, TimeoutError(EffectiveTimeout(req.config, defaultConfig)))
    /\ UNCHANGED <<unit, defaultConfig, baseURL, call, pc, res, sock, timings, chunks,
                   totalSize, clock>>

\* error.message.includes(token)
Includes(message, token) == \E i \in 1..Len(message) : message[i] = token

\* the classification of req.on('error')
ClassifyError(message) ==
    IF Includes(message, "ENOTFOUND")
    THEN NetworkError("DNS lookup failed: ${hostname}", URLHostname(req.url))
    ELSE IF Includes(message, "ECONNREFUSED")
    THEN [NetworkError("Connection refused: ${hostname}:${port}", URLHostname(req.url))
            EXCEPT !.num = Some(IF IsHttps(req.url) THEN 443 ELSE 80)]
    ELSE IF Includes(message, "ECONNRESET")
    THEN NetworkError("Connection reset by peer", <<>>)
    ELSE IF Includes(message, "ETIMEDOUT")
    THEN TimeoutError(EffectiveTimeout(req.config, defaultConfig))
    ELSE IF Includes(message, "CERT_HAS_EXPIRED")
            \/ Includes(message, "UNABLE_TO_VERIFY_LEAF_SIGNATURE")
    THEN NetworkError("SSL/TLS certificate error", <<>>)
    ELSE IF Includes(message, "HPE_INVALID_HEADER_TOKEN")
    THEN NetworkError("Invalid HTTP response headers", <<>>)
    ELSE NetworkError("${message}", message)

\* req.on('error'): a transport fault, or the 'socket hang up' that follows
\* req.destroy() when no response had arrived.  Node destroys the socket
\* with the error.
OnError(message) ==
    /\ Live /\ ~EndPending
    /\ IF req.destroyed
       THEN ~res.received /\ message = <<"socket hang up">>
       ELSE res.received => message \in StreamFaults
    /\ promise' = Reject(promise, ClassifyError(message))
    /\ sock' = [sock EXCEPT !.closed = TRUE, !.error = message]
    /\ UNCHANGED <<unit, defaultConfig, baseURL, call, pc, req, res, timings, chunks,
                   totalSize, clock>>

\* The socket closes after the response callback has run and before the
\* message is complete (the peer closed it, or req.destroy() did): the
\* response is aborted, and no handler of the code is called.
ConnClose ==
    /\ Live /\ ~EndPending /\ res.received
    /\ sock' = [sock EXCEPT !.closed = TRUE]
    /\ UNCHANGED <<unit, defaultConfig, baseURL, call, pc, promise, req, res, timings,
                   chunks, totalSize, clock>>

\* The calls whose exchange is followed: a call without and a call with a
\* payload, to a relative endpoint (http) and to an absolute one (https),
\* with and without a timeout of its own.
Next ==
    \/ \E op \in {"get", "post"},
          endpoint \in { StrVal(<<"/", "u">>), StrVal(HttpsScheme \o <<"a", "/", "u">>) },
          config \in [method : {""}, timeout : {null, Some(1)}, contentType : {null},
                      illegalHeader : {FALSE}, headers : {null},
                      rawResponse : {null, Some(TRUE)}] :
         Request(op, endpoint, IF OpTakesData(op) THEN PlainObject ELSE JUndefined, config)
    \/ Tick
    \/ SecureConnect
    \/ \E line \in StatusLines, complete \in BOOLEAN : Response(line, complete)
    \/ \E len \in ChunkSizes, last \in BOOLEAN : OnData(len, last)
    \/ OnEnd
    \/ OnTimeout
    \/ \E message \in ConnectFaults \cup StreamFaults : OnError(message)
    \/ ConnClose

Spec == Init /\ [][Next]_vars

\* Pending events are eventually delivered.
FairSpec == Spec /\ WF_vars(Next)

(***************************************************************************)
(* The calls alone: every public method with every endpoint, payload and   *)
(* per-call configuration, on a client with and without a base URL, up to  *)
(* the point where _request awaits the exchange.                           *)
(***************************************************************************)
InitCall ==
    /\ defaultConfig \in [timeout : ClientTimeouts, contentType : {Some("json")},
                          headers : { DefaultHeaders, <<Header(XTraceName, <<"1">>)>> }, rawResponse : {Some(FALSE)}]
    /\ baseURL \in { <<>>, HttpScheme \o <<"h">> }
    /\ call = NoCall
    /\ pc = "idle"
    /\ promise = Pending
    /\ req = NoReq
    /\ res = NoRes
    /\ sock = NoSock
    /\ timings = NoTimings
    /\ chunks = <<>>
    /\ totalSize = 0
    /\ clock = HrtimeAtCall
    /\ unit = NoUnit

NextCall ==
    /\ pc = "idle"
    /\ \E op \in {"get", "post", "put", "delete", "postForm", "postMultipart", "postText",
                   "postBinary"},
          endpoint \in
             { StrVal(<<>>),                          \* ''
             [t |-> "null", s |-> <<>>],            \* null
             [t |-> "undefined", s |-> <<>>],       \* undefined
             [t |-> "number", s |-> <<"4", "2">>],  \* 42
             StrVal(<<"/", "u">>),                  \* '/u'
             StrVal(<<"u">>),                       \* 'u'
             StrVal(HttpsScheme \o <<"a", "/", "u">>) }, \* 'https://a/u'
          config \in CallConfigs :
          \E data \in (IF OpTakesData(op)
                       THEN { JNull, JUndefined, PlainObject, CircularObject, NullFieldObject,
                              EmptyString, SomeString, SomeBuffer }
                       ELSE {JUndefined}) :
             Request(op, endpoint, data, config)

SpecCall == InitCall /\ [][NextCall]_vars

(***************************************************************************)
(* _buildURL alone: a client with each base URL resolves each endpoint.    *)
(***************************************************************************)
Host == HttpScheme \o <<"h">>
Users == <<"u", "s", "e", "r", "s">>
InitURL ==
    /\ defaultConfig \in [timeout : ClientTimeouts, contentType : {Some("json")},
                          headers : {DefaultHeaders}, rawResponse : {Some(FALSE)}]
    /\ baseURL \in
         { <<>>, Host, Host \o <<"/">>, Host \o <<"/", "/">>,
         Host \o <<"/", "a">>, Host \o <<"/", "a", "/">>,
         HttpsScheme \o <<"h">>, HttpsScheme \o <<"h", "/">> }
    /\ call = NoCall
    /\ pc = "idle"
    /\ promise = Pending
    /\ req = NoReq
    /\ res = NoRes
    /\ sock = NoSock
    /\ timings = NoTimings
    /\ chunks = <<>>
    /\ totalSize = 0
    /\ clock = HrtimeAtCall
    /\ unit \in [f : {"_buildURL"}, done : {FALSE}, endpoint :
                    { Users, <<"/">> \o Users, <<"/", "/">> \o Users,
                    <<"u">>, <<"/">>, <<"a", "/", "u">>, <<"/", "a", "/">>,
                    HttpScheme \o <<"a", "/", "u">>, HttpsScheme \o <<"a", "/", "u">> }, url : {<<>>}]

BuildURL ==
    /\ unit.f = "_buildURL" /\ ~unit.done
    /\ unit' = [unit EXCEPT !.done = TRUE, !.url = _buildURL(baseURL, unit.endpoint)]
    /\ UNCHANGED <<defaultConfig, baseURL, call, pc, promise, req, res, sock, timings,
                   chunks, totalSize, clock>>

SpecURL == InitURL /\ [][BuildURL]_vars

(***************************************************************************)
(* The codec alone: _serializeData applied to a payload under a mode, the  *)
(* peer that sends the bytes it received back under the Content-Type it    *)
(* received, and _parseResponse applied to a response.                     *)
(***************************************************************************)
Payloads == { JNull, PlainObject, NullFieldObject, FormObject, UploadObject,
              EmptyString, SomeString, AmpString, SomeBuffer,
              [t |-> "buffer", v |-> "Buffer[]"] }

TextThenJson ==
    <<"t", "e", "x", "t", "/", "x", ";", " ", "a", "p", "p", "l", "i", "c",
      "a", "t", "i", "o", "n", "/", "j", "s", "o", "n">>

\* The client has each default of rawResponse.  The response a call is
\* resolved with has a status that passed the status check, the timings of
\* an http or an https exchange, one of the bodies (JSON texts, white space,
\* a broken JSON text, plain text, bytes that are no text, the empty body)
\* and one of the Content-Type values: none, '', an array, the types the
\* rules name, alone, with a charset parameter and in capitals, and types
\* that contain the parts of two rules.
InitCodec ==
    /\ defaultConfig \in [timeout : ClientTimeouts, contentType : {Some("json")},
                          headers : {DefaultHeaders},
                          rawResponse : {null, Some(FALSE), Some(TRUE)}]
    /\ baseURL = HttpScheme \o <<"h">>
    /\ call = NoCall
    /\ pc = "idle"
    /\ promise = Pending
    /\ req = NoReq
    /\ res = NoRes
    /\ sock = NoSock
    /\ timings = NoTimings
    /\ chunks = <<>>
    /\ totalSize = 0
    /\ clock = HrtimeAtCall
    /\ LET codec(phase, data, mode, response) ==
               [f |-> "codec", done |-> FALSE, phase |-> phase, data |-> data,
                contentType |-> mode, ser |-> Threw(NoError), response |-> response,
                config |-> NoConfig, out |-> Undefined]
       IN  \/ \E data \in Payloads,
                 mode \in {"json", "form", "multipart", "text", "binary", "none"} :
                unit = codec("payload", data, mode,
                             [status |-> 0, headers |-> <<>>, body |-> <<>>,
                              timings |-> NoTimings])
           \/ \E status \in {0, 200},
                 tls \in {null, Some(1)},
                 body \in
                    { <<>>, <<1, 2>>, BufferFrom(<<" ", "\n">>), BufferFrom(<<"a", "b">>),
                      BufferFrom(<<"{", "\"", "a", "\"", ":">>),
                      BufferFrom(JSONStringify(PlainObject)),
                      BufferFrom(<<" ">> \o JSONStringify(PlainObject) \o <<"\n">>),
                      BufferFrom(JSONStringify(SomeString)) },
                 type \in
                    { Undefined, StrVal(<<>>), [t |-> "array", s |-> ApplicationJson] }
                    \cup { StrVal(s) : s \in
                            { ApplicationJson, TextPlain, OctetStream, ApplicationPdf, ApplicationXml,
                              FormUrlencoded, TextThenJson,
                              ApplicationJson \o <<";", " ", "c", "h", "a", "r", "s", "e", "t", "=", "u", "t", "f", "-", "8">>,
                              TextSlash \o <<"h", "t", "m", "l">>
                                        \o <<";", " ", "c", "h", "a", "r", "s", "e", "t", "=", "u", "t", "f", "-", "8">>,
                              ImageSlash \o <<"p", "n", "g">>,
                              ImageSlash \o <<"x", ";", " ">> \o TextSlash \o <<"y">>,
                              <<"A", "p", "p", "l", "i", "c", "a", "t", "i", "o", "n", "/", "J", "S", "O", "N">>,
                              <<"T", "E", "X", "T", "/", "P", "L", "A", "I", "N">>,
                              <<"I", "M", "A", "G", "E", "/", "P", "N", "G">> } },
                 name \in {ContentTypeName, LowerContentTypeName} :
                unit = codec("response", JUndefined, "",
                             [status |-> status,
                              headers |-> IF type = Undefined THEN <<>>
                                          ELSE <<Header(name, type)>>,
                              body |-> body,
                              timings |-> [start |-> Some(HrtimeAtCall), tlsHandshake |-> tls,
                                           ttfb |-> Some(1), total |-> Some(2)]])

\* _serializeData(data, contentType)
Serialize(token) ==
    /\ unit.f = "codec" /\ unit.phase = "payload"
    /\ LET ser == _serializeData(unit.data, unit.contentType, token) IN
       unit' = [unit EXCEPT !.ser = ser,
                            !.phase = IF ser.threw THEN "threw" ELSE "encoded"]
    /\ UNCHANGED <<defaultConfig, baseURL, call, pc, promise, req, res, sock, timings,
                   chunks, totalSize, clock>>

\* The peer answers 200 with the body and the Content-Type of the request.
\* req.write(body) writes a string in UTF-8, a Buffer as it is, and a falsy
\* body not at all; Node hands over the header names in lower case.
Echo ==
    /\ unit.f = "codec" /\ unit.phase = "encoded"
    /\ LET content == unit.ser.content
           headers == unit.ser.headers
           written == CASE content.t = "buffer" -> content.b
                        [] content.t = "string" -> BufferFrom(content.s)
                        [] OTHER -> <<>>
           received == [i \in 1..Len(headers) |->
                           Header(toLowerCase(headers[i].name), StrVal(headers[i].value))]
       IN  unit' = [unit EXCEPT !.phase = "response",
                                !.response = [status |-> 200, headers |-> received,
                                              body |-> written,
                                              timings |-> [start |-> Some(HrtimeAtCall),
                                                           tlsHandshake |-> null,
                                                           ttfb |-> Some(1),
                                                           total |-> Some(2)]]]
    /\ UNCHANGED <<defaultConfig, baseURL, call, pc, promise, req, res, sock, timings,
                   chunks, totalSize, clock>>

\* _parseResponse(response)
Parse ==
    /\ unit.f = "codec" /\ unit.phase = "response"
    /\ unit' = [unit EXCEPT !.phase = "decoded", !.done = TRUE,
                            !.out = _parseResponse(unit.response)]
    /\ UNCHANGED <<defaultConfig, baseURL, call, pc, promise, req, res, sock, timings,
                   chunks, totalSize, clock>>

\* _request after its await: the response _makeRequest resolved with is
\* returned as it is when mergedConfig.rawResponse is true, and decoded
\* otherwise
ReturnDefaultOnly(config) ==
    /\ unit.f = "codec" /\ unit.phase = "response"
    /\ LET response == unit.response
           data == IF defaultConfig.rawResponse = Some(TRUE) THEN response
                   ELSE _parseResponse(response)
       IN  unit' = [unit EXCEPT !.phase = "returned", !.done = TRUE, !.config = config,
                                !.out = [data |-> data, timings |-> response.timings,
                                         statusCode |-> response.status,
                                         headers |-> response.headers]]
    /\ UNCHANGED <<defaultConfig, baseURL, call, pc, promise, req, res, sock, timings,
                   chunks, totalSize, clock>>
Return(config) ==
    /\ unit.f = "codec" /\ unit.phase = "response"
    /\ LET mergedConfig == _mergeConfig(defaultConfig, config)
           response == unit.response
           data == IF mergedConfig.rawResponse = Some(TRUE) THEN response
                   ELSE _parseResponse(response)
       IN  unit' = [unit EXCEPT !.phase = "returned", !.done = TRUE, !.config = config,
                                !.out = [data |-> data, timings |-> response.timings,
                                         statusCode |-> response.status,
                                         headers |-> response.headers]]
    /\ UNCHANGED <<defaultConfig, baseURL, call, pc, promise, req, res, sock, timings,
                   chunks, totalSize, clock>>

NextCodec ==
    \/ \E token \in BoundaryTokens : Serialize(token)
    \/ Echo
    \/ Parse
    \/ \E rawResponse \in {null, Some(FALSE), Some(TRUE)} :
          Return([NoConfig EXCEPT !.rawResponse = rawResponse])

SpecCodec == InitCodec /\ [][NextCodec]_vars

(***************************************************************************)
(* The client object: its constructor, the methods that change its         *)
(* configuration, and clone().  The methods act on the client in focus,    *)
(* whose fields are defaultConfig and baseURL; a second client, when there  *)
(* is one, is unit.other, and Switch moves the focus to it.  An object     *)
(* spread copies the reference of a nested object, so two clients may hold *)
(* one and the same headers object: unit.sameHeaders.                      *)
(***************************************************************************)
DefaultTimeout == 10000
Authorization == <<"A", "u", "t", "h", "o", "r", "i", "z", "a", "t", "i", "o", "n">>

\* new HttpClient(baseURL, defaultConfig): defaultConfig is a partial
\* configuration, a key it lacks is null.  The last spread, ...defaultConfig,
\* replaces every key it has, headers included, and the headers it puts
\* there are the caller's object itself.
constructor(base, config) ==
    LET headers == Spread(DefaultHeaders,
                          IF config.headers # null THEN config.headers[1] ELSE <<>>)
    IN  [baseURL |-> base,
         defaultConfig |->
            [headers |-> IF config.headers # null THEN config.headers[1] ELSE headers,
             timeout |-> IF config.timeout # null THEN config.timeout[1] ELSE DefaultTimeout,
             rawResponse |-> IF config.rawResponse # null THEN config.rawResponse
                             ELSE Some(FALSE),
             contentType |-> IF config.contentType # null THEN config.contentType
                             ELSE Some("json")],
         sameHeaders |-> config.headers # null]

\* One call of a method that changes the configuration of the client in
\* focus.  object says what the method does to the headers object of the
\* client: "kept", "mutated" (in place: every client that holds the object
\* sees the change) or "replaced" (the client holds a new object).
Mutator(name, config, base, object) ==
    /\ unit.f \in {"clients", "mutators"}
    /\ unit.n < MaxMutations
    /\ defaultConfig' = config
    /\ baseURL' = base
    /\ unit' = IF unit.f = "clients"
               THEN [unit EXCEPT
                       !.n = @ + 1, !.last = name,
                       !.other.defaultConfig.headers =
                            IF object = "mutated" /\ unit.sameHeaders THEN config.headers
                            ELSE @,
                       !.sameHeaders = @ /\ object # "replaced"]
               ELSE [unit EXCEPT !.n = @ + 1, !.last = name]
    /\ UNCHANGED <<call, pc, promise, req, res, sock, timings, chunks, totalSize, clock>>

setDefaultHeaders(headers) ==
    Mutator("setDefaultHeaders",
            [defaultConfig EXCEPT !.headers = Spread(@, headers)], baseURL, "replaced")

\* setAuthToken calls setDefaultHeaders({ Authorization: `${type} ${token}` })
setAuthToken(token, type) ==
    Mutator("setAuthToken",
            [defaultConfig EXCEPT
               !.headers = Spread(@, <<Header(Authorization, type \o <<" ">> \o token)>>)],
            baseURL, "replaced")

\* a copy of the headers without Authorization
clearAuthToken ==
    Mutator("clearAuthToken",
            [defaultConfig EXCEPT
               !.headers = SelectSeq(@, LAMBDA h : h.name # Authorization)],
            baseURL, "replaced")

setBaseURL(base) == Mutator("setBaseURL", defaultConfig, base, "kept")

\* reset assigns a configuration of two keys, headers and timeout
reset ==
    Mutator("reset",
            [headers |-> DefaultHeaders, timeout |-> DefaultTimeout,
             rawResponse |-> null, contentType |-> null],
            baseURL, "replaced")

setTimeout(timeout) ==
    Mutator("setTimeout", [defaultConfig EXCEPT !.timeout = timeout], baseURL, "kept")

\* this.defaultConfig.headers[key] = value
setHeader(key, value) ==
    Mutator("setHeader",
            [defaultConfig EXCEPT !.headers = Spread(@, <<Header(key, value)>>)],
            baseURL, "mutated")

\* delete this.defaultConfig.headers[key]
removeHeader(key) ==
    Mutator("removeHeader",
            [defaultConfig EXCEPT !.headers = SelectSeq(@, LAMBDA h : h.name # key)],
            baseURL, "mutated")

clearHeaders ==
    Mutator("clearHeaders", [defaultConfig EXCEPT !.headers = <<>>], baseURL, "replaced")

setHeaders(headers) ==
    Mutator("setHeaders",
            [defaultConfig EXCEPT !.headers = Spread(@, headers)], baseURL, "replaced")

\* the calls of these methods that the caller makes
Mutators ==
    \/ setDefaultHeaders(<<Header(XTraceName, <<"2">>)>>)
    \/ setAuthToken(<<"t">>, <<"B", "e", "a", "r", "e", "r">>)
    \/ clearAuthToken
    \/ setBaseURL(HttpScheme \o <<"a">>)
    \/ reset
    \/ setTimeout(5)
    \/ \E key \in {XTraceName, ContentTypeName} : setHeader(key, <<"1">>)
    \/ \E key \in {XTraceName, UserAgentName} : removeHeader(key)
    \/ clearHeaders
    \/ setHeaders(<<Header(XTraceName, <<"3">>)>>)

\* clone(): new HttpClient(this.baseURL, this.defaultConfig)
clone ==
    /\ unit.f = "clients" /\ ~unit.cloned
    /\ LET made == constructor(baseURL,
                               [headers |-> Some(defaultConfig.headers),
                                timeout |-> Some(defaultConfig.timeout),
                                rawResponse |-> defaultConfig.rawResponse,
                                contentType |-> defaultConfig.contentType])
       IN  unit' = [unit EXCEPT !.cloned = TRUE, !.last = "clone",
                                !.other = [baseURL |-> made.baseURL,
                                           defaultConfig |-> made.defaultConfig],
                                !.sameHeaders = made.sameHeaders]
    /\ UNCHANGED <<defaultConfig, baseURL, call, pc, promise, req, res, sock, timings,
                   chunks, totalSize, clock>>

\* the caller turns to the other client
Switch ==
    /\ unit.f = "clients" /\ unit.cloned
    /\ defaultConfig' = unit.other.defaultConfig
    /\ baseURL' = unit.other.baseURL
    /\ unit' = [unit EXCEPT !.other = [baseURL |-> baseURL, defaultConfig |-> defaultConfig],
                            !.last = "",
                            !.focus = IF @ = "original" THEN "clone" ELSE "original"]
    /\ UNCHANGED <<call, pc, promise, req, res, sock, timings, chunks, totalSize, clock>>

\* A client is constructed with or without a configuration of its own;
\* unit.built keeps the configuration it was constructed with.
InitClient ==
    /\ \E base \in {<<>>, Host},
          config \in [headers : {null, Some(<<>>), Some(<<Header(XTraceName, <<"1">>)>>),
                                 Some(<<Header(ContentTypeName, TextPlain)>>)},
                      timeout : {null, Some(2)}, rawResponse : {null, Some(TRUE)},
                      contentType : {null}] :
          LET made == constructor(base, config) IN
          /\ defaultConfig = made.defaultConfig
          /\ baseURL = made.baseURL
          /\ unit = [f |-> "clients", done |-> FALSE, n |-> 0, last |-> "constructor",
                     built |-> config, cloned |-> FALSE, focus |-> "original",
                     sameHeaders |-> FALSE,
                     other |-> [baseURL |-> made.baseURL,
                                defaultConfig |-> made.defaultConfig]]
    /\ call = NoCall
    /\ pc = "idle"
    /\ promise = Pending
    /\ req = NoReq
    /\ res = NoRes
    /\ sock = NoSock
    /\ timings = NoTimings
    /\ chunks = <<>>
    /\ totalSize = 0
    /\ clock = HrtimeAtCall

SpecClient == InitClient /\ [][Mutators \/ clone \/ Switch]_vars

(***************************************************************************)
(* One call on a client whose configuration methods are called while the   *)
(* call is in flight and after it has settled: a get of '/u' with and      *)
(* without a timeout of its own, answered, timed out or failed.            *)
(***************************************************************************)
InitMutate ==
    /\ defaultConfig \in [timeout : ClientTimeouts, contentType : {Some("json")},
                          headers : {DefaultHeaders}, rawResponse : {Some(FALSE)}]
    /\ baseURL = HttpScheme \o <<"h">>
    /\ call = NoCall
    /\ pc = "idle"
    /\ promise = Pending
    /\ req = NoReq
    /\ res = NoRes
    /\ sock = NoSock
    /\ timings = NoTimings
    /\ chunks = <<>>
    /\ totalSize = 0
    /\ clock = HrtimeAtCall
    /\ unit = [f |-> "mutators", done |-> FALSE, n |-> 0, last |-> ""]

SpecMutate ==
    InitMutate /\
    [][ \/ \E timeout \in {null, Some(0), Some(1)} :
              Request("get", StrVal(<<"/", "u">>), JUndefined,
                      [NoConfig EXCEPT !.timeout = timeout])
        \/ (pc = "inflight" /\ Mutators)
        \/ Tick
        \/ Response([code |-> Some(200), message |-> <<"OK">>], TRUE)
        \/ OnEnd
        \/ OnTimeout
        \/ \E message \in { <<"connect", "ETIMEDOUT">>, <<"socket hang up">> } :
              OnError(message) ]_vars

(***************************************************************************)
(* Two calls on one client, in flight together.  The handlers of a call    *)
(* are closures of that call's _makeRequest: promise, req, res, the socket,*)
(* timings, chunks and totalSize exist once per call.  The events of the   *)
(* model are delivered to the exchange in focus; the other exchange is     *)
(* unit.x, and SwitchExchange moves the focus, so that the events of the   *)
(* two exchanges interleave in every order.  The client and the clock are  *)
(* shared.                                                                 *)
(***************************************************************************)
\* the event loop turns to a handler of the other exchange
SwitchSharedChunks ==
    /\ unit.f = "exchange"
    /\ call' = unit.x.call
    /\ pc' = unit.x.pc
    /\ promise' = unit.x.promise
    /\ req' = unit.x.req
    /\ res' = unit.x.res
    /\ sock' = unit.x.sock
    /\ timings' = unit.x.timings
    /\ unit' = [unit EXCEPT !.focus = 3 - @,
                            !.x = [call |-> call, pc |-> pc, promise |-> promise,
                                   req |-> req, res |-> res, sock |-> sock,
                                   timings |-> timings, chunks |-> chunks,
                                   totalSize |-> totalSize]]
    /\ UNCHANGED <<defaultConfig, baseURL, clock, chunks, totalSize>>
SwitchExchange ==
    /\ unit.f = "exchange"
    /\ call' = unit.x.call
    /\ pc' = unit.x.pc
    /\ promise' = unit.x.promise
    /\ req' = unit.x.req
    /\ res' = unit.x.res
    /\ sock' = unit.x.sock
    /\ timings' = unit.x.timings
    /\ chunks' = unit.x.chunks
    /\ totalSize' = unit.x.totalSize
    /\ unit' = [unit EXCEPT !.focus = 3 - @,
                            !.x = [call |-> call, pc |-> pc, promise |-> promise,
                                   req |-> req, res |-> res, sock |-> sock,
                                   timings |-> timings, chunks |-> chunks,
                                   totalSize |-> totalSize]]
    /\ UNCHANGED <<defaultConfig, baseURL, clock>>

InitPair ==
    /\ defaultConfig \in [timeout : ClientTimeouts, contentType : {Some("json")},
                          headers : {DefaultHeaders}, rawResponse : {Some(FALSE)}]
    /\ baseURL = HttpScheme \o <<"h">>
    /\ call = NoCall
    /\ pc = "idle"
    /\ promise = Pending
    /\ req = NoReq
    /\ res = NoRes
    /\ sock = NoSock
    /\ timings = NoTimings
    /\ chunks = <<>>
    /\ totalSize = 0
    /\ clock = HrtimeAtCall
    /\ unit = [f |-> "exchange", done |-> FALSE, focus |-> 1,
               x |-> [call |-> NoCall, pc |-> "idle", promise |-> Pending, req |-> NoReq,
                      res |-> NoRes, sock |-> NoSock, timings |-> NoTimings,
                      chunks |-> <<>>, totalSize |-> 0]]

\* Both calls are gets with a timeout of 1 ms, the first to the base URL
\* (http), the second to an absolute https URL.  Each is answered by 200 and
\* a body of two chunks: the k-th chunk of exchange i has i + 2 * (k - 1)
\* bytes, or is one that takes the total beyond the ceiling.
SpecPair ==
    InitPair /\
    [][ \/ Request("get",
                   IF unit.focus = 1 THEN StrVal(<<"/", "u">>)
                   ELSE StrVal(HttpsScheme \o <<"a", "/", "u">>),
                   JUndefined, [NoConfig EXCEPT !.timeout = Some(1)])
        \/ SwitchExchange
        \/ Tick
        \/ SecureConnect
        \/ Response([code |-> Some(200), message |-> <<"OK">>], FALSE)
        \/ \E len \in {unit.focus + 2 * res.nData, maxSize + 1} :
              OnData(len, res.nData = 1)
        \/ OnEnd
        \/ OnTimeout
        \/ \E message \in { <<"read", "ECONNRESET">>, <<"socket hang up">> } :
              OnError(message) ]_vars

(***************************************************************************)
(* Properties.                                                             *)
(***************************************************************************)
RECURSIVE SumSeq(_)
SumSeq(q) == IF q = <<>> THEN 0 ELSE Head(q) + SumSeq(Tail(q))

Settled == promise.state # "pending"
TooLarge == NetworkError("Response too large", <<>>)

\* C1: once the promise of a call has settled, no later event changes its
\* outcome: the caller observes at most one terminal outcome.
C1_SingleOutcome == [][Settled => promise' = promise]_vars

\* the size ceiling rejected the call, and the 'end' handler ran afterwards
C1_Witness ==
    /\ promise = Rejected(TooLarge)
    /\ res.ended
    /\ StatusIsError(res.statusCode)

\* C2: every dispatched call eventually settles, whatever the environment
\* does, when pending events are eventually delivered.
C2_EventuallySettles == (pc = "inflight") ~> Settled

\* C3: whenever a call fails, the caller receives an HttpClientError or one
\* of its subclasses, never a bare runtime exception.
C3_TypedErrors ==
    promise.state = "rejected" =>
        promise.error.name \in {"HttpClientError", "TimeoutError", "NetworkError",
                                "ValidationError"}

\* the encoding mode in force for the call in progress
ActiveMode ==
    CASE call.op = "postForm" -> "form"
      [] call.op = "postMultipart" -> "multipart"
      [] call.op = "postText" -> "text"
      [] call.op = "postBinary" -> "binary"
      [] OTHER -> IF call.config.contentType # null THEN call.config.contentType[1]
                  ELSE defaultConfig.contentType[1]
HasPayload == OpTakesData(call.op) /\ call.data.t \notin {"null", "undefined"}
BadEndpoint == call.endpoint.t # "string" \/ Len(call.endpoint.s) = 0
CircularJson == HasPayload /\ ActiveMode = "json" /\ call.data = CircularObject
NonByteBinary == HasPayload /\ ActiveMode = "binary" /\ call.data.t # "buffer"
NullMultipart == HasPayload /\ ActiveMode = "multipart" /\ call.data = NullFieldObject

\* C4: a call whose endpoint is invalid or whose payload cannot be
\* serialized under the active mode fails, and no request object is created
\* and nothing is written for it.
C4_NoNetworkOnInvalidInput ==
    (pc # "idle" /\ (BadEndpoint \/ CircularJson \/ NonByteBinary \/ NullMultipart)) =>
        /\ promise.state = "rejected"
        /\ ~req.created
        /\ req.written = NoBody

\* a circular payload posted in json mode to a well-formed endpoint
C4_Witness ==
    /\ pc = "done"
    /\ ~BadEndpoint
    /\ CircularJson
    /\ promise.state = "rejected"
    /\ ~req.created

\* C5: the accumulated chunks never exceed the ceiling; a chunk that would
\* push the running total above it is not appended and rejects the call with
\* NetworkError 'Response too large' at that step; a chunk that brings the
\* total to the ceiling or below is appended and rejects nothing.
C5_SizeCeiling ==
    /\ [](SumSeq(chunks) <= maxSize)
    /\ [][res'.nData = res.nData + 1 =>
            LET len == totalSize' - totalSize IN
            IF SumSeq(chunks) + len > maxSize
            THEN chunks' = chunks /\ promise' = Rejected(TooLarge)
            ELSE chunks' = Append(chunks, len) /\ promise' = promise]_vars

\* the body reached the ceiling exactly, was kept, and one more byte was refused
C5_Witness ==
    /\ SumSeq(chunks) = maxSize
    /\ totalSize = maxSize + 1
    /\ promise = Rejected(TooLarge)

\* the exchange was aborted by the timeout, the size ceiling or a transport error
Aborted ==
    /\ promise.state = "rejected"
    /\ promise.error.name \in {"TimeoutError", "NetworkError"}

\* C6: once an exchange has been aborted, no event delivered afterwards sets
\* or changes a timing field.
C6_TimingsFrozen == [][Aborted => timings' = timings]_vars

\* a <= b, skipping null
Leq(a, b) == a = null \/ b = null \/ a[1] <= b[1]

\* C7: in the timings of a successful response,
\* start <= tlsHandshake <= ttfb <= total on the stored values, nulls skipped.
C7_StoredOrder ==
    promise.state = "fulfilled" =>
        /\ Leq(timings.start, timings.tlsHandshake)
        /\ Leq(timings.start, timings.ttfb)
        /\ Leq(timings.start, timings.total)
        /\ Leq(timings.tlsHandshake, timings.ttfb)
        /\ Leq(timings.tlsHandshake, timings.total)
        /\ Leq(timings.ttfb, timings.total)

\* C7 (amended): in the timings of a successful response the durations are
\* ordered 0 <= tlsHandshake <= ttfb <= total, nulls skipped, and total is set.
C7_DurationOrder ==
    promise.state = "fulfilled" =>
        /\ timings.total # null
        /\ Leq(Some(0), timings.tlsHandshake)
        /\ Leq(Some(0), timings.ttfb)
        /\ Leq(timings.tlsHandshake, timings.ttfb)
        /\ Leq(timings.tlsHandshake, timings.total)
        /\ Leq(timings.ttfb, timings.total)

\* a success over https with the three durations set and apart
C7_Witness ==
    /\ promise.state = "fulfilled"
    /\ timings.tlsHandshake # null /\ timings.ttfb # null /\ timings.total # null
    /\ timings.tlsHandshake[1] < timings.ttfb[1]
    /\ timings.ttfb[1] < timings.total[1]

\* C8: an exchange that has not completed when the configured timeout has
\* elapsed since dispatch is aborted: no call is still pending later than that.
C8_HardCeiling ==
    (pc = "inflight" /\ ~Settled) =>
        clock - timings.start[1] <= req.timeout * NsPerMs

\* the status code is outside [200, 300), a missing status and 0 included
OutsideSuccess(sc) == sc = null \/ sc[1] < 200 \/ sc[1] >= 300

\* C9: every response whose status is outside [200, 300), 0 and a missing
\* status included, rejects the call with HttpClientError 'HTTP <code>:
\* <reason>' carrying the code.
C9_EveryStatusOutside ==
    (res.ended /\ ~req.destroyed /\ ~sock.closed /\ OutsideSuccess(res.statusCode)) =>
        /\ promise.state = "rejected"
        /\ promise.error.name = "HttpClientError"
        /\ promise.error.statusCode = res.statusCode

\* C9 (amended): when 'end' reaches a pending call, a non-zero status code
\* outside [200, 300) rejects it with HttpClientError 'HTTP <code>: <reason>'
\* carrying the code, a status of 0 or no status resolves it with status 0,
\* and a status inside [200, 300) resolves it with that status; total is set
\* by that step, and no call is rejected with an HTTP error before it.
C9_StatusAtEnd ==
    /\ [](promise.error.name = "HttpClientError" => res.ended /\ timings.total # null)
    /\ [][(res'.ended /\ ~res.ended /\ ~Settled) =>
            /\ timings'.total # null
            /\ LET sc == res.statusCode IN
               IF sc # null /\ sc[1] # 0 /\ (sc[1] < 200 \/ sc[1] >= 300)
               THEN promise' = Rejected(Err("HttpClientError",
                                            "HTTP ${statusCode}: ${statusMessage}",
                                            sc, res.statusMessage, sc))
               ELSE /\ promise'.state = "fulfilled"
                    /\ promise'.status = (IF sc = null THEN 0 ELSE sc[1])]_vars

\* a 404 with a body: rejected after the body was drained and total was set
C9_Witness ==
    /\ res.ended /\ chunks # <<>> /\ timings.total # null
    /\ promise = Rejected(HttpClientError(404, <<"Not Found">>))

\* C10: an invalid endpoint, a non-byte payload in binary mode and a
\* circular payload in json mode each fail with an error of the Validation kind.
C10_ValidationKind ==
    (pc # "idle" /\ (BadEndpoint \/ NonByteBinary \/ CircularJson)) =>
        /\ promise.state = "rejected"
        /\ promise.error.name = "ValidationError"

(***************************************************************************)
(* URL resolution.                                                         *)
(***************************************************************************)
IsAbsolute(endpoint) == StartsWith(endpoint, HttpScheme) \/ StartsWith(endpoint, HttpsScheme)
\* the base with one trailing slash removed, if it has one
BaseStem == IF EndsWith(baseURL, <<"/">>) THEN SubSeq(baseURL, 1, Len(baseURL) - 1) ELSE baseURL
Resolved == unit.f = "_buildURL" /\ unit.done

\* C11 as stated: an absolute endpoint is the URL; every other endpoint is
\* appended to the base less one trailing slash with exactly one leading
\* slash, so that 'users', '/users' and '//users' resolve alike; an empty
\* base gives a root-relative path.
C11_OneLeadingSlash ==
    Resolved =>
        unit.url = IF IsAbsolute(unit.endpoint) THEN unit.endpoint
                   ELSE BaseStem \o <<"/">> \o StripSlashes(unit.endpoint)

\* C11: an absolute endpoint is the URL; every other endpoint is appended to
\* the base less one trailing slash, after a slash when it begins with none
\* and as it is when it begins with one or more; an empty base gives a
\* root-relative path.
C11_LeadingSlashKept ==
    Resolved =>
        /\ IsAbsolute(unit.endpoint) => unit.url = unit.endpoint
        /\ ~IsAbsolute(unit.endpoint) =>
             /\ unit.url = BaseStem \o (IF unit.endpoint # <<>> /\ Head(unit.endpoint) = "/"
                                        THEN <<>> ELSE <<"/">>) \o unit.endpoint
             /\ baseURL = <<>> => Head(unit.url) = "/"

\* '//users' resolved against a base that ends in a slash
C11_Witness ==
    /\ Resolved
    /\ baseURL = Host \o <<"/">>
    /\ unit.endpoint = <<"/", "/">> \o Users
    /\ unit.url = Host \o <<"/", "/">> \o Users

\* the call got as far as _makeRequest: its endpoint and payload were accepted
ReachedMakeRequest ==
    pc # "idle" /\ ~BadEndpoint /\ ~CircularJson /\ ~NonByteBinary /\ ~NullMultipart
InvalidURL(url) == NetworkError("Invalid URL: ${url}", url)

\* C12: a call whose resolved URL cannot be parsed, as is every relative
\* endpoint on a client with an empty base URL, is rejected with the
\* NetworkError 'Invalid URL: <url>'; no request object is created, no timing
\* record is started and nothing is written.
C12_InvalidURLRejected ==
    LET url == _buildURL(baseURL, call.endpoint.s)
        relative == baseURL = <<>> /\ ~IsAbsolute(call.endpoint.s)
    IN  (ReachedMakeRequest /\ (relative \/ ~URLParses(url))) =>
            /\ promise = Rejected(InvalidURL(url))
            /\ ~req.created
            /\ timings = NoTimings
            /\ req.written = NoBody

\* a payload posted to 'u' on a client without a base URL
C12_Witness ==
    /\ pc = "done"
    /\ baseURL = <<>>
    /\ call.op = "post" /\ call.data = PlainObject
    /\ call.endpoint = StrVal(<<"u">>)
    /\ promise = Rejected(InvalidURL(<<"/", "u">>))

(***************************************************************************)
(* Payloads and headers of a call.                                         *)
(***************************************************************************)
NullPayload == pc # "idle" /\ call.data.t \in {"null", "undefined"}
\* the headers of the client merged with those of the call
MergedHeaders ==
    IF call.config.headers = null THEN defaultConfig.headers
    ELSE Spread(defaultConfig.headers, call.config.headers[1])

\* C16: under every mode, binary included, a null or undefined payload gives
\* a request without a body and is no reason to fail; the codec adds no
\* Content-Type, so the request carries the merged headers of the client and
\* the call unchanged.
C16_NullPayload ==
    NullPayload =>
        /\ req.written = NoBody
        /\ promise.state = "rejected" =>
             \/ BadEndpoint
             \/ promise.error = InvalidURL(_buildURL(baseURL, call.endpoint.s))
             \/ call.config.illegalHeader
        /\ req.created => req.config.headers = Some(MergedHeaders)

\* postBinary with a null payload was dispatched with the client's headers
C16_Witness ==
    /\ pc = "inflight"
    /\ call.op = "postBinary" /\ call.data = JNull
    /\ req.created /\ req.written = NoBody
    /\ req.config.headers = Some(DefaultHeaders)

SameName(n, m) == toLowerCase(n) = toLowerCase(m)
\* the entries of a header map under a name, whatever its letter case
Named(headers, n) == SelectSeq(headers, LAMBDA h : SameName(h.name, n))

\* C19: the headers of a call are merged key by key with names compared
\* without regard to letter case: a header of the call replaces the header
\* of the client of the same name, and the merged map holds no two entries
\* whose names differ only by case; timeout, rawResponse and contentType of
\* the call override those of the client when present.
C19_CaseInsensitiveMerge ==
    (NullPayload /\ req.created) =>
        LET merged == req.config.headers[1]
            own == IF call.config.headers = null THEN <<>> ELSE call.config.headers[1]
        IN  /\ \A i, j \in 1..Len(merged) :
                  SameName(merged[i].name, merged[j].name) => i = j
            /\ \A i \in 1..Len(own) : Named(merged, own[i].name) = <<own[i]>>
            /\ \A i \in 1..Len(defaultConfig.headers) :
                  LET d == defaultConfig.headers[i] IN
                  Named(own, d.name) = <<>> => Named(merged, d.name) = <<d>>
            /\ req.config.timeout =
                  IF call.config.timeout # null THEN call.config.timeout
                  ELSE Some(defaultConfig.timeout)
            /\ req.config.rawResponse =
                  IF call.config.rawResponse # null THEN call.config.rawResponse
                  ELSE defaultConfig.rawResponse
            /\ req.config.contentType =
                  IF OpConfig(call.op, call.config).contentType # null
                  THEN OpConfig(call.op, call.config).contentType
                  ELSE defaultConfig.contentType

\* the Content-Type the call's own headers name, under any letter case
OwnContentType ==
    IF call.config.headers = null THEN null
    ELSE SentHeader(call.config.headers[1], LowerContentTypeName)

\* C20: when a call carries a payload and its own headers name a Content-Type,
\* that Content-Type is the one the request is sent with; the Content-Type of
\* the encoding mode does not replace it.
C20_CustomContentTypeSent ==
    (req.created /\ ~NullPayload /\ OwnContentType # null) =>
        SentHeader(req.config.headers[1], LowerContentTypeName) = OwnContentType

(***************************************************************************)
(* Decoding and encoding.                                                  *)
(***************************************************************************)
Decoded == unit.f = "codec" /\ unit.phase = "decoded"
Encoded == unit.f = "codec" /\ unit.phase = "encoded"
\* the Content-Type of the response under either spelling of the name,
\* its body and the text of its body
TypeOf(response) == IF response.headers = <<>> THEN Undefined ELSE response.headers[1].value
Contains(type, part) == type.t = "string" /\ StrIncludes(type.s, part)
TextOf(response) == StrVal(BufferToString(response.body))
ValidJson(response) == ~JSONParseThrows(BufferToString(response.body))

\* C13: a response is decoded by the first rule that matches: an empty body
\* gives the empty string whatever the type; an absent type gives the text; a
\* type containing 'application/json' gives the parsed JSON value of a body
\* that holds one; a type containing 'text/' gives the text; a type
\* containing 'application/octet-stream', 'application/pdf' or 'image/' gives
\* the bytes; every other type, a header value that is no string included,
\* gives the text.
C13_DecodeRules ==
    Decoded =>
        LET r == unit.response
            type == TypeOf(r)
        IN  IF r.body = <<>> THEN unit.out = StrVal(<<>>)
            ELSE IF type = Undefined THEN unit.out = TextOf(r)
            ELSE IF Contains(type, ApplicationJson)
            THEN ValidJson(r) => unit.out = JSONParse(BufferToString(r.body))
            ELSE IF Contains(type, TextSlash) THEN unit.out = TextOf(r)
            ELSE IF \/ Contains(type, OctetStream) \/ Contains(type, ApplicationPdf)
                    \/ Contains(type, ImageSlash)
            THEN unit.out = Buf(r.body)
            ELSE unit.out = TextOf(r)

\* a type that contains 'text/' and then 'application/json' was decoded as JSON
C13_Witness ==
    /\ Decoded
    /\ TypeOf(unit.response) = StrVal(TextThenJson)
    /\ unit.response.body = BufferFrom(JSONStringify(PlainObject))
    /\ unit.out = PlainObject

InvalidJsonBody ==
    /\ Decoded
    /\ unit.response.body # <<>>
    /\ Contains(TypeOf(unit.response), ApplicationJson)
    /\ ~ValidJson(unit.response)
WhiteSpaceOnly(response) == trim(BufferToString(response.body)) = <<>>

\* C14 as stated: a non-empty body under a type containing 'application/json'
\* whose text is no valid JSON is decoded to the raw text of the body,
\* unmodified.
C14_RawTextOnInvalidJson == InvalidJsonBody => unit.out = TextOf(unit.response)

\* C14: a non-empty body under a type containing 'application/json' whose
\* text is no valid JSON is decoded to the raw text of the body, unmodified,
\* unless the text is white space only: then it is decoded to the empty
\* object {}.
C14_RawTextOrEmptyObject ==
    InvalidJsonBody =>
        unit.out = IF WhiteSpaceOnly(unit.response) THEN EmptyObject
                   ELSE TextOf(unit.response)

\* a broken JSON text was handed back as it came
C14_Witness ==
    /\ InvalidJsonBody
    /\ unit.response.body = BufferFrom(<<"{", "\"", "a", "\"", ":">>)
    /\ unit.out = StrVal(<<"{", "\"", "a", "\"", ":">>)

CharsetParam ==
    <<";", " ", "c", "h", "a", "r", "s", "e", "t", "=", "u", "t", "f", "-",
      "8">>
\* a Content-Type in lower case, and without its charset parameter
Lowered(type) == IF type.t = "string" THEN StrVal(toLowerCase(type.s)) ELSE type
Bare(type) ==
    IF type.t = "string" /\ EndsWith(type.s, CharsetParam)
    THEN StrVal(SubSeq(type.s, 1, Len(type.s) - Len(CharsetParam))) ELSE type
WithType(response, type) ==
    [response EXCEPT !.headers = IF type = Undefined THEN <<>>
                                 ELSE <<Header(response.headers[1].name, type)>>]

\* C15: the Content-Type is matched as a substring without regard to letter
\* case: a response is decoded as the response with the same body and the
\* Content-Type in lower case is, and as the one without the trailing
\* parameter is.
C15_CaseInsensitiveMatch ==
    Decoded =>
        /\ unit.out = _parseResponse(WithType(unit.response, Lowered(TypeOf(unit.response))))
        /\ unit.out = _parseResponse(WithType(unit.response, Bare(TypeOf(unit.response))))

\* the fields of a payload are all of a type the multipart encoder writes
TypedFields(data) ==
    \A i \in 1..Len(Entries(data)) :
        LET v == Entries(data)[i].value IN v.t \in {"string", "buffer"} \/ IsFile(v)
\* how often a piece occurs in a body
Count(body, piece) ==
    Cardinality({i \in 0..(Len(body) - Len(piece)) : SubSeq(body, i + 1, i + Len(piece)) = piece})
\* the pairs of a form, null and undefined values dropped
FormText(data) ==
    LET es == SelectSeq(Entries(data), LAMBDA e : e.value.t \notin {"null", "undefined"})
    IN  Join([i \in 1..Len(es) |-> FormEncode(es[i].key) \o <<"=">>
                                     \o FormEncode(String(es[i].value))], <<"&">>)
OnlyHeader(type) == <<Header(ContentTypeName, type)>>
\* the rows of the table for json, form, multipart, text and binary
ModeRows ==
    LET data == unit.data
        ser == unit.ser
    IN  /\ unit.contentType = "json" =>
              ser.content = StrVal(JSONStringify(data)) /\ ser.headers = OnlyHeader(ApplicationJson)
        /\ unit.contentType = "form" =>
              ser.content = StrVal(FormText(data)) /\ ser.headers = OnlyHeader(FormUrlencoded)
        /\ (unit.contentType = "multipart" /\ TypedFields(data)) =>
              \E token \in BoundaryTokens :
                 LET boundary == <<"-", "-">> \o WebKitFormBoundary \o token IN
                 /\ ser.headers = OnlyHeader(MultipartFormData \o WebKitFormBoundary \o token)
                 /\ ser.content.t = "buffer"
                 /\ Count(ser.content.b, BufferFrom(boundary \o CRLF \o ContentDisposition))
                       = Len(Entries(data))
                 /\ Count(ser.content.b, BufferFrom(boundary \o CRLF)) = Len(Entries(data))
                 /\ EndsWith(ser.content.b, BufferFrom(boundary \o <<"-", "-">> \o CRLF))
        /\ (unit.contentType = "text" /\ data.t = "string") =>
              ser.content = Denote(data) /\ ser.headers = OnlyHeader(TextPlain)
        /\ unit.contentType = "binary" =>
              ser.content = Denote(data) /\ ser.headers = OnlyHeader(OctetStream)

\* C17 as stated: for a payload that is not null, json emits the JSON text
\* with 'application/json'; form the percent-encoded key=value pairs joined by
\* '&', null and undefined values dropped, with
\* 'application/x-www-form-urlencoded'; multipart one part per field and a
\* closing boundary with 'multipart/form-data; boundary=<token>'; text the
\* string unchanged with 'text/plain'; binary the bytes unchanged with
\* 'application/octet-stream'; none no body and no Content-Type.
C17_ModeTable ==
    Encoded /\ unit.data # JNull =>
        /\ ModeRows
        /\ unit.contentType = "none" => unit.ser.content = NullVal /\ unit.ser.headers = <<>>

\* C17: the rows for json, form, multipart, text and binary as stated; a mode
\* tag that is none of the five, 'none' included, is encoded as json is.
C17_ModeTableJsonDefault ==
    Encoded /\ unit.data # JNull =>
        /\ ModeRows
        /\ unit.contentType = "none" =>
              /\ unit.ser.content = StrVal(JSONStringify(unit.data))
              /\ unit.ser.headers = OnlyHeader(ApplicationJson)

\* a form with a null field and a value to escape was encoded
C17_Witness ==
    /\ Encoded
    /\ unit.contentType = "form" /\ unit.data = FormObject
    /\ unit.ser.content = StrVal(<<"q", "=", "a", "%", "2", "6", "b", "&", "k", "=", "1">>)

\* the payload went through its matching mode and came back decoded
RoundTrip(mode, types) ==
    Decoded /\ unit.contentType = mode /\ unit.data.t \in types /\ unit.data # JNull

\* C18 as stated: decoding what was encoded gives a value equal to the
\* payload, for every string under text, every form map under form and every
\* Buffer under binary, the empty Buffer included.
C18_RoundTrip ==
    (RoundTrip("text", {"string"}) \/ RoundTrip("form", {"object"})
       \/ RoundTrip("binary", {"buffer"})) =>
        unit.out = Denote(unit.data)

\* C18: decoding what was encoded gives a value equal to the payload for
\* every string under text and every Buffer that is not empty under binary;
\* the empty Buffer comes back as the empty string, and a form map under form
\* comes back as its encoded text, a string.
C18_RoundTripTextAndBytes ==
    /\ RoundTrip("text", {"string"}) => unit.out = Denote(unit.data)
    /\ RoundTrip("binary", {"buffer"}) =>
          unit.out = IF BufferOf(unit.data) = <<>> THEN StrVal(<<>>) ELSE Denote(unit.data)
    /\ RoundTrip("form", {"object"}) => unit.out = StrVal(FormText(unit.data))

\* a string with a character the form encoding would escape came back under text
C18_Witness ==
    /\ RoundTrip("text", {"string"})
    /\ unit.data = AmpString
    /\ unit.out = StrVal(<<"a", "&", "b">>)

\* _request has returned to the caller of a call whose exchange succeeded
HasReturned == unit.f = "codec" /\ unit.phase = "returned"
\* rawResponse after merging the per-call configuration over the default
RawMode ==
    IF unit.config.rawResponse # null THEN unit.config.rawResponse = Some(TRUE)
    ELSE defaultConfig.rawResponse = Some(TRUE)

\* C23: in raw-response mode (rawResponse true after merging the per-call
\* configuration over the default) a successful call returns the transport
\* response itself as data (status, headers, accumulated body bytes and
\* timings, undecoded); otherwise data is the decoded body; in both modes
\* statusCode, headers and timings of the result are those of the transport
\* response.
C23_RawOrDecoded ==
    HasReturned =>
        /\ unit.out.statusCode = unit.response.status
        /\ unit.out.headers = unit.response.headers
        /\ unit.out.timings = unit.response.timings
        /\ IF RawMode
           THEN unit.out.data = [status |-> unit.response.status,
                                 headers |-> unit.response.headers,
                                 body |-> unit.response.body,
                                 timings |-> unit.response.timings]
           ELSE unit.out.data = _parseResponse(unit.response)

\* a call that asks for the raw response on a client whose default is the
\* decoded one got the bytes of a JSON body, undecoded
C23_Witness ==
    /\ HasReturned
    /\ defaultConfig.rawResponse = Some(FALSE)
    /\ unit.config.rawResponse = Some(TRUE)
    /\ unit.out.data.body = BufferFrom(JSONStringify(PlainObject))
    /\ Get(unit.out.headers, LowerContentTypeName) = StrVal(ApplicationJson)
    /\ _parseResponse(unit.response) = PlainObject

FirstPattern(message) ==
    LET patterns == << {"ENOTFOUND"}, {"ECONNREFUSED"}, {"ECONNRESET"}, {"ETIMEDOUT"},
                       {"CERT_HAS_EXPIRED", "UNABLE_TO_VERIFY_LEAF_SIGNATURE"},
                       {"HPE_INVALID_HEADER_TOKEN"} >>
        hit(i) == \E k \in 1..Len(message) : message[k] \in patterns[i]
    IN  IF \E i \in 1..Len(patterns) : hit(i)
        THEN CHOOSE i \in 1..Len(patterns) : hit(i) /\ \A j \in 1..(i - 1) : ~hit(j)
        ELSE 0
\* the error class and message the claim gives each pattern
ClassOf(message) ==
    LET i == FirstPattern(message) IN
    [name |-> IF i = 4 THEN "TimeoutError" ELSE "NetworkError",
     text |-> CASE i = 1 -> "DNS lookup failed: ${hostname}"
                [] i = 2 -> "Connection refused: ${hostname}:${port}"
                [] i = 3 -> "Connection reset by peer"
                [] i = 4 -> "Request timeout after ${timeout}ms"
                [] i = 5 -> "SSL/TLS certificate error"
                [] i = 6 -> "Invalid HTTP response headers"
                [] OTHER -> "${message}"]
\* an 'error' event was delivered in this step
ErrorEvent == sock'.error # sock.error
\* every 'error' event on an unsettled request rejects with the error of the
\* first pattern its message matches
ErrorEventsClassified ==
    [][(ErrorEvent /\ promise.state = "pending") =>
          /\ promise'.state = "rejected"
          /\ promise'.error.name = ClassOf(sock'.error).name
          /\ promise'.error.text = ClassOf(sock'.error).text]_vars
\* a fault of the transport on an unsettled call: the connection is lost
ConnectionLost == ~sock.closed /\ sock'.closed /\ promise.state = "pending"

\* C25: every 'error' event on an unsettled request rejects the call with
\* exactly one typed error, chosen by the first matching pattern in the order
\* ENOTFOUND, ECONNREFUSED, ECONNRESET, ETIMEDOUT, certificate failure,
\* invalid header token, else generic (TimeoutError for ETIMEDOUT,
\* NetworkError for the others), and no fault is dropped: a call that loses
\* its connection while unsettled is rejected.
C25_EveryFaultClassified ==
    /\ ErrorEventsClassified
    /\ [][ConnectionLost => promise'.state = "rejected"]_vars

\* a 'timeout' event was delivered in this step: the handler destroys the
\* request without having read a chunk
TimeoutEvent == ~req.destroyed /\ req'.destroyed /\ totalSize' = totalSize

\* C28: when the timeout event fires on an unsettled exchange the call is
\* rejected with a TimeoutError, and a call rejected with a TimeoutError
\* stays so: the 'error' event that destroying the request emits afterwards
\* and any later 'data' or 'end' event neither replace the outcome nor
\* resolve the call.
C28_TimeoutStays ==
    /\ [][(TimeoutEvent /\ promise.state = "pending") =>
            promise'.state = "rejected" /\ promise'.error.name = "TimeoutError"]_vars
    /\ [][(promise.state = "rejected" /\ promise.error.name = "TimeoutError") =>
            promise' = promise]_vars

\* the timeout fired before any response and the 'socket hang up' error of
\* the destroyed request was delivered afterwards
C28_Witness ==
    /\ promise.state = "rejected" /\ promise.error.name = "TimeoutError"
    /\ req.destroyed
    /\ sock.error = <<"socket hang up">>

\* the call asked for the raw response
RawAsked == req.created /\ req.config.rawResponse = Some(TRUE)

\* C29: raw-response mode does not bypass the status check: with rawResponse
\* true, a response that ends with a status outside [200, 300) rejects the
\* call with the HttpClientError of that status, so the response a
\* raw-response call is resolved with has a status in [200, 300) or the
\* placeholder 0.
C29_RawStatusChecked ==
    /\ []((RawAsked /\ promise.state = "fulfilled") =>
            (promise.status = 0 \/ promise.status \in 200..299))
    /\ [][(RawAsked /\ ~res.ended /\ res'.ended /\ promise.state = "pending"
           /\ res.statusCode # null /\ res.statusCode # Some(0)
           /\ res.statusCode[1] \notin 200..299) =>
            promise' = Rejected(HttpClientError(res.statusCode[1], res.statusMessage))]_vars

\* a raw-response call was rejected with the HTTP error of a 404
C29_Witness ==
    /\ RawAsked
    /\ res.ended
    /\ promise = Rejected(HttpClientError(404, <<"Not Found">>))

\* the clients, with the one in focus first
Clients == unit.f = "clients"
\* the configuration of a client constructed with no configuration of its own
Fresh == constructor(baseURL, [headers |-> null, timeout |-> null, rawResponse |-> null,
                               contentType |-> null]).defaultConfig

\* C26: after any sequence of configuration methods, reset() leaves the
\* default configuration of the client equal to that of a client constructed
\* with no custom configuration: the same headers, timeout, rawResponse and
\* contentType entries.
C26_ResetRestoresDefaults ==
    (Clients /\ unit.last = "reset") => defaultConfig = Fresh

\* C27: a client constructed with custom default headers has the built-in
\* Content-Type and User-Agent headers overlaid by the custom ones: a
\* built-in header is absent or changed only if the custom map names its key.
C27_HeadersOverlaid ==
    (Clients /\ unit.last = "constructor" /\ unit.built.headers # null) =>
        /\ defaultConfig.headers = Spread(DefaultHeaders, unit.built.headers[1])
        /\ \A i \in 1..Len(DefaultHeaders) :
              (\A j \in 1..Len(unit.built.headers[1]) :
                  unit.built.headers[1][j].name # DefaultHeaders[i].name)
              => \E k \in 1..Len(defaultConfig.headers) :
                    defaultConfig.headers[k] = DefaultHeaders[i]

\* the fields of the client in focus
InFocus == [baseURL |-> baseURL, defaultConfig |-> defaultConfig]

\* C30: immediately after clone() the two clients have equal base URL and
\* default configuration, and every later call of a header, auth-token,
\* timeout, base-URL or reset method on one of them leaves the base URL and
\* the default configuration of the other unchanged.
C30_CloneIndependent ==
    /\ []((Clients /\ unit.last = "clone") => unit.other = InFocus)
    /\ [][(Clients /\ unit.cloned /\ unit'.n = unit.n + 1) => unit'.other = unit.other]_vars

\* C22: the default configuration is read only at call start.  The request
\* is built from the configuration and base URL the client has when the call
\* is made; while the call is in flight no configuration method changes the
\* headers, the URL or the timeout of the request; and a TimeoutError the
\* call raises carries the timeout the request was dispatched with.
C22_ReadAtCallStart ==
    /\ [][(pc = "idle" /\ pc' = "inflight") =>
            /\ req'.url = _buildURL(baseURL, call'.endpoint.s)
            /\ req'.config.headers = Some(defaultConfig.headers)
            /\ req'.timeout = OrElse(call'.config.timeout, defaultConfig.timeout)]_vars
    /\ [][pc = "inflight" =>
            /\ req'.url = req.url
            /\ req'.config = req.config
            /\ req'.timeout = req.timeout]_vars
    /\ [](promise.error.name = "TimeoutError" => promise.error.num = Some(req.timeout))

\* the two exchanges of a pair: the one in focus and the other
ExchangeOf(i) ==
    IF unit.focus = i
    THEN [call |-> call, pc |-> pc, promise |-> promise, req |-> req, res |-> res,
          sock |-> sock, timings |-> timings, chunks |-> chunks, totalSize |-> totalSize]
    ELSE unit.x

\* what the events delivered to exchange i alone account for: the chunks it
\* was handed, in the order of arrival, up to the one that went beyond the
\* ceiling; its own time stamps; and its own outcome
OwnEventsOnly(i) ==
    LET e == ExchangeOf(i) IN
    /\ Len(e.chunks) = IF e.totalSize > maxSize THEN e.res.nData - 1 ELSE e.res.nData
    /\ \A k \in 1..Len(e.chunks) : e.chunks[k] = i + 2 * (k - 1)
    /\ e.timings.start # null <=> e.pc = "inflight"
    /\ e.timings.tlsHandshake # null <=> e.sock.secure
    /\ e.timings.ttfb # null <=> e.res.nData > 0
    /\ e.timings.total # null <=> e.res.ended
    /\ e.promise.state # "pending" <=>
           e.res.ended \/ e.req.destroyed \/ e.sock.error # <<>>
    /\ e.promise.state = "fulfilled" <=> e.res.ended /\ ~e.req.destroyed
    /\ e.promise.state = "fulfilled" => e.chunks = <<i, i + 2>>

\* C21: two calls in flight on one client are independent.  At every point
\* of every interleaving each exchange holds exactly its own chunks in
\* arrival order (the body of a fulfilled call is its two chunks), its
\* timings are stamped by its own events only and it is settled by its own
\* end or abort only; and an event delivered to one exchange, an abort
\* included, changes nothing of the other.
C21_ConcurrentCallsIndependent ==
    /\ [](unit.f = "exchange" => OwnEventsOnly(1) /\ OwnEventsOnly(2))
    /\ [][unit.f = "exchange" =>
            /\ ExchangeOf(1)' # ExchangeOf(1) => ExchangeOf(2)' = ExchangeOf(2)
            /\ unit'.focus = unit.focus => unit'.x = unit.x]_vars

\* both calls were made at the same instant; the first was aborted by its
\* timeout after its first chunk; the second, over TLS, was fulfilled with
\* its two chunks
C21_Witness ==
    /\ unit.f = "exchange"
    /\ ExchangeOf(1).timings.start = ExchangeOf(2).timings.start
    /\ ExchangeOf(1).promise.state = "rejected"
    /\ ExchangeOf(1).promise.error.name = "TimeoutError"
    /\ ExchangeOf(1).chunks = <<1>>
    /\ ExchangeOf(2).promise.state = "fulfilled"
    /\ ExchangeOf(2).chunks = <<2, 4>>
    /\ ExchangeOf(2).timings.tlsHandshake # null
    /\ ExchangeOf(2).timings.total # null

====
